---- MODULE Spec2Model ----
(***************************************************************************)
(* krabbos: descriptor tables (GDT/TSS/IDT), boot order, interrupt         *)
(* handlers, the console lock and the 4-level address translator.          *)
(*                                                                         *)
(* Machine words are modelled as the set of their set bits (a u64 is a     *)
(* subset of 0..63), so that shifts, masks and truncating casts are done   *)
(* bit for bit at full width.                                              *)
(***************************************************************************)
EXTENDS Integers, Sequences, FiniteSets, TLC

(***************************************************************************)
(* Machine words                                                           *)
(***************************************************************************)
BitRange(lo, hi) == lo..hi

\* the word whose value is the natural number n (n < 2^31)
Bits(n) == {i \in 0..30 : (n \div (2^i)) % 2 = 1}

RECURSIVE Val(_)
\* the value of a word that fits 31 bits
Val(w) == IF w = {} THEN 0
          ELSE LET i == CHOOSE j \in w : TRUE IN 2^i + Val(w \ {i})

Shl(w, k) == {i + k : i \in w} \cap BitRange(0, 63)
Shr(w, k) == {i - k : i \in {j \in w : j >= k}}
AsU16(w)  == w \cap BitRange(0, 15)
AsU32(w)  == w \cap BitRange(0, 31)
AsU8(w)   == w \cap BitRange(0, 7)

RECURSIVE AddCarry(_, _, _, _)
AddCarry(a, b, i, c) ==
    IF i > 63 THEN {}
    ELSE LET s == (IF i \in a THEN 1 ELSE 0) + (IF i \in b THEN 1 ELSE 0) + c
         IN  (IF s % 2 = 1 THEN {i} ELSE {}) \cup AddCarry(a, b, i + 1, s \div 2)

\* wrapping u64 addition
Add64(a, b) == AddCarry(a, b, 0, 0)

\* a < b, unsigned: the highest bit in which they differ is b's
Lt64(a, b) ==
    LET d == (a \ b) \cup (b \ a)
    IN  d # {} /\ (CHOOSE m \in d : \A j \in d : j <= m) \in b

\* a + b does not fit 64 bits: with overflow checks (debug profile) the
\* addition panics, without them (release profile) it wraps
AddOverflows(a, b) == Lt64(Add64(a, b), a)

(***************************************************************************)
(* memory/paging.rs: addresses, entries                                    *)
(***************************************************************************)
PAGE_4KB_SIZE == Bits(4096)
ENTRY_COUNT == 512

\* PageTableFlags
PRESENT   == {0}
HUGE_PAGE == {7}
WRITABLE  == {1}
PageTableFlags_all == BitRange(0, 11) \cup BitRange(52, 63)

\* PhysAddr::align_down, for a power of two `value` (a single set bit)
align_down(self, value) ==
    LET k == CHOOSE j \in value : TRUE IN self \ BitRange(0, k - 1)

PageTableIndex_new_truncate(index) == Val(index) % ENTRY_COUNT
PageOffset_new_truncate(offset) == Val(offset) % 4096

page_offset(self) == PageOffset_new_truncate(AsU16(self))
p1_index(self) == PageTableIndex_new_truncate(AsU16(Shr(self, 12)))

\* mutant: the level-2 index is read one shift short
p2_index_OneShift(self) == PageTableIndex_new_truncate(AsU16(Shr(self, 12)))

p2_index(self) == PageTableIndex_new_truncate(AsU16(Shr(Shr(self, 12), 9)))
p3_index(self) == PageTableIndex_new_truncate(AsU16(Shr(Shr(Shr(self, 12), 9), 9)))
p4_index(self) == PageTableIndex_new_truncate(AsU16(Shr(Shr(Shr(Shr(self, 12), 9), 9), 9)))

\* PageTableEntry::flags / addr
PageTableEntry_flags(entry) == entry \cap PageTableFlags_all
\* mutant: the address mask keeps the bits above 51
PageTableEntry_addr_NoHighMask(entry) == entry \cap BitRange(12, 63)

\* PageTableEntry::addr: entry & 0x000f_ffff_ffff_f000
PageTableEntry_addr(entry) == entry \cap BitRange(12, 51)

\* mutant: the present flag is not looked at
PageTableEntry_frame_NoPresentCheck(entry) ==
    IF HUGE_PAGE \subseteq PageTableEntry_flags(entry)
    THEN [kind |-> "HugeFrame", frame |-> {}]
    ELSE [kind |-> "Ok", frame |-> align_down(PageTableEntry_addr(entry), PAGE_4KB_SIZE)]

\* PageTableEntry::frame
PageTableEntry_frame(entry) ==
    IF ~(PRESENT \subseteq PageTableEntry_flags(entry))
    THEN [kind |-> "FrameNotPresent", frame |-> {}]
    ELSE IF HUGE_PAGE \subseteq PageTableEntry_flags(entry)
    THEN [kind |-> "HugeFrame", frame |-> {}]
    ELSE [kind |-> "Ok", frame |-> align_down(PageTableEntry_addr(entry), PAGE_4KB_SIZE)]

(***************************************************************************)
(* tables/selectors.rs, tables/tss.rs, tables/gdt.rs                       *)
(***************************************************************************)
\* SegmentSelector::new(index, table bit, privilege): index in bits 3-15
SegmentSelector_new(index, ti, rpl) == index * 8 + ti * 4 + rpl

\* a fixed array [default; len] with the slots written so far
ArrayOf(len, default) == [len |-> len, default |-> default, set |-> <<>>]
ArrayGet(a, i) == IF i \in DOMAIN a.set THEN a.set[i] ELSE a.default
ArraySet(a, i, v) ==
    [a EXCEPT !.set = [j \in (DOMAIN a.set) \cup {i} |-> IF j = i THEN v ELSE a.set[j]]]

\* size_of::<TaskStateSegment>() for #[repr(C, packed(4))]
TSS_SIZE == 104
STACK_SIZE == Bits(4096 * 5)

\* TaskStateSegment::new
TaskStateSegment_new ==
    [privilege_stack_table |-> [i \in 0..2 |-> {}],
     interrupt_stack_table |-> [i \in 0..6 |-> {}],
     iomap_base            |-> Bits(TSS_SIZE)]

\* mutant: the stack is bound to the second IST slot
TSS_build_SecondSlot(stack_start) ==
    [TaskStateSegment_new EXCEPT
        !.interrupt_stack_table[1] = Add64(stack_start, STACK_SIZE)]

\* lazy_static TSS, with the double-fault stack at `stack_start`
TSS_build(stack_start) ==
    [TaskStateSegment_new EXCEPT
        !.interrupt_stack_table[0] = Add64(stack_start, STACK_SIZE)]

I86_GDT_DESC_ACCESS     == Bits(1)
I86_GDT_DESC_READWRITE  == Bits(2)
I86_GDT_DESC_EXEC_CODE  == Bits(8)
I86_GDT_DESC_CODEDATA   == Bits(16)
I86_GDT_DESC_DPL        == Bits(96)
I86_GDT_DESC_MEMORY     == Bits(128)
I86_GDT_GRAND_LIMITHI_MASK == Bits(15)
I86_GDT_GRAND_OS        == Bits(16)
I86_GDT_GRAND_32BIT     == Bits(64)
I86_GDT_GRAND_64BIT     == Bits(32)
I86_GDT_GRAND_4K        == Bits(128)
SEGMENT_LIMIT == BitRange(0, 31)
SEGMENT_BASE  == {}
GDT_ENTRIES == 8192

\* mutant: the null descriptor has its "in memory" bit set
GDTEntry_null_InMemory ==
    [limit_low |-> {}, base_low |-> {}, base_mid |-> {},
     access_byte |-> {7}, granularity |-> {}, base_high |-> {}]

\* GDTEntry::null
GDTEntry_null ==
    [limit_low |-> {}, base_low |-> {}, base_mid |-> {},
     access_byte |-> {}, granularity |-> {}, base_high |-> {}]

\* GDTEntry::set_entry
GDTEntry_set_entry(base, limit, access_byte, gran) ==
    [limit_low   |-> limit \cap BitRange(0, 15),
     base_low    |-> base \cap BitRange(0, 15),
     base_mid    |-> Shr(base, 16) \cap BitRange(0, 7),
     access_byte |-> access_byte,
     granularity |-> (Shr(limit, 16) \cap BitRange(0, 3)) \cup (gran \cap BitRange(4, 7)),
     base_high   |-> Shr(base, 24) \cap BitRange(0, 7)]

\* GDTEntry::set_tss_low
GDTEntry_set_tss_low(tss_addr) ==
    GDTEntry_set_entry(tss_addr \cap BitRange(0, 31), Bits(TSS_SIZE - 1),
        I86_GDT_DESC_MEMORY \cup I86_GDT_DESC_ACCESS \cup I86_GDT_DESC_EXEC_CODE,
        I86_GDT_GRAND_64BIT \cup I86_GDT_GRAND_OS)

\* GDTEntry::from_u64: the 8 bytes of `value` laid over the fields in order
GDTEntry_from_u64(value) ==
    [limit_low   |-> value \cap BitRange(0, 15),
     base_low    |-> Shr(value, 16) \cap BitRange(0, 15),
     base_mid    |-> Shr(value, 32) \cap BitRange(0, 7),
     access_byte |-> Shr(value, 40) \cap BitRange(0, 7),
     granularity |-> Shr(value, 48) \cap BitRange(0, 7),
     base_high   |-> Shr(value, 56) \cap BitRange(0, 7)]

\* mutant: the second slot takes the low half of the address again
GDTEntry_set_tss_high_LowHalf(tss_addr) ==
    GDTEntry_from_u64(tss_addr \cap BitRange(0, 31))

\* GDTEntry::set_tss_high
GDTEntry_set_tss_high(tss_addr) ==
    GDTEntry_from_u64(Shr(tss_addr, 32) \cap BitRange(0, 31))

\* GlobalDescriptorTable::set_tss
GlobalDescriptorTable_set_tss(gdt, tss_addr, index) ==
    ArraySet(ArraySet(gdt, index, GDTEntry_set_tss_low(tss_addr)),
             index + 1, GDTEntry_set_tss_high(tss_addr))

CodeAccess == I86_GDT_DESC_READWRITE \cup I86_GDT_DESC_EXEC_CODE
                \cup I86_GDT_DESC_CODEDATA \cup I86_GDT_DESC_MEMORY
DataAccess == I86_GDT_DESC_READWRITE \cup I86_GDT_DESC_CODEDATA \cup I86_GDT_DESC_MEMORY
Gran32 == I86_GDT_GRAND_4K \cup I86_GDT_GRAND_32BIT \cup I86_GDT_GRAND_LIMITHI_MASK
Gran64 == I86_GDT_GRAND_4K \cup I86_GDT_GRAND_64BIT \cup I86_GDT_GRAND_LIMITHI_MASK

\* lazy_static GDT, for the TSS at `tss_addr`
GDT_build(tss_addr) ==
    LET g0 == ArrayOf(GDT_ENTRIES, GDTEntry_null)
        g1 == ArraySet(g0, 1, GDTEntry_set_entry(SEGMENT_BASE, SEGMENT_LIMIT, CodeAccess, Gran32))
        g2 == ArraySet(g1, 2, GDTEntry_set_entry(SEGMENT_BASE, SEGMENT_LIMIT, CodeAccess, Gran64))
        g3 == ArraySet(g2, 3, GDTEntry_set_entry(SEGMENT_BASE, SEGMENT_LIMIT, DataAccess, Gran32))
        g4 == ArraySet(g3, 4, GDTEntry_set_entry(SEGMENT_BASE, SEGMENT_LIMIT,
                                  I86_GDT_DESC_DPL \cup CodeAccess, Gran32))
        g5 == ArraySet(g4, 5, GDTEntry_set_entry(SEGMENT_BASE, SEGMENT_LIMIT,
                                  I86_GDT_DESC_DPL \cup CodeAccess, Gran64))
        g6 == ArraySet(g5, 6, GDTEntry_set_entry(SEGMENT_BASE, SEGMENT_LIMIT,
                                  I86_GDT_DESC_DPL \cup DataAccess, Gran32))
    IN  GlobalDescriptorTable_set_tss(g6, tss_addr, 7)

\* mutant: the limit is the byte size, not the byte size minus one
GlobalDescriptorTable_limit_NoMinusOne(self) == AsU16(Bits(self.len * 8))

\* GlobalDescriptorTable::limit: (self.0.len() * size_of::<u64>() - 1) as u16
GlobalDescriptorTable_limit(self) == AsU16(Bits(self.len * 8 - 1))

\* GlobalDescriptorTable::pointer, for the table at `addr`
GlobalDescriptorTable_pointer(self, addr) ==
    [limit |-> GlobalDescriptorTable_limit(self), base |-> addr]

(***************************************************************************)
(* tables/idt.rs                                                           *)
(***************************************************************************)
IDT_ENTRY_OPTION_PRESENT        == {15}
IDT_ENTRY_OPTION_INTERRUPT_GATE == {9, 10, 11}
IDT_ENTRY_OPTION_TRAP_GATE      == {8, 9, 10, 11}

\* mutant: a missing gate is marked present
IDTEntry_missing_Present ==
    [pointer_low |-> {}, pointer_mid |-> {}, pointer_high |-> {},
     cs |-> 0, options |-> IDT_ENTRY_OPTION_INTERRUPT_GATE \cup {15}, reserved |-> {}]

\* IDTEntry::missing
IDTEntry_missing ==
    [pointer_low |-> {}, pointer_mid |-> {}, pointer_high |-> {},
     cs |-> 0, options |-> IDT_ENTRY_OPTION_INTERRUPT_GATE, reserved |-> {}]

\* IDTEntry::set_present
IDTEntry_set_present(self, present) ==
    [self EXCEPT !.options = IF present THEN @ \cup {15} ELSE @ \ {15}]

\* IDTEntry::present
IDTEntry_present(self) == 15 \in self.options

\* mutant: the gate keeps the selector it was constructed with
IDTEntry_set_entry_KeepCs(self, addr, opt, cs) ==
    LET e == [self EXCEPT !.pointer_low  = AsU16(addr),
                          !.pointer_mid  = AsU16(Shr(addr, 16)),
                          !.pointer_high = AsU32(Shr(addr, 32))]
        p == IDTEntry_set_present(e, TRUE)
    IN  IF opt = <<>> THEN p ELSE [p EXCEPT !.options = opt[1]]

\* IDTEntry::set_entry, with CS::get_reg() = cs; opt is <<>> (None) or <<options>> (Some)
IDTEntry_set_entry(self, addr, opt, cs) ==
    LET e == [self EXCEPT !.pointer_low  = AsU16(addr),
                          !.pointer_mid  = AsU16(Shr(addr, 16)),
                          !.pointer_high = AsU32(Shr(addr, 32)),
                          !.cs           = cs]
        p == IDTEntry_set_present(e, TRUE)
    IN  IF opt = <<>> THEN p ELSE [p EXCEPT !.options = opt[1]]

\* the handler address a gate holds
IDTEntry_pointer(self) ==
    self.pointer_low \cup Shl(self.pointer_mid, 16) \cup Shl(self.pointer_high, 32)

\* the functions registered by the IDT's initializer, in its order:
\* <<vector, function, options>>
IDT_registrations ==
    << <<0, "divide_error", <<>> >>, <<1, "debug", <<>> >>,
       <<2, "non_maskable_interrupt", <<>> >>, <<3, "breakpoint", <<>> >>,
       <<4, "overflow", <<>> >>, <<5, "bound_range_exceeded", <<>> >>,
       <<6, "invalid_opcode", <<>> >>, <<7, "coprocessor_not_available", <<>> >>,
       <<8, "double_fault", <<IDT_ENTRY_OPTION_INTERRUPT_GATE \cup Bits(1)>> >>,
       <<10, "invalid_tss", <<>> >>, <<11, "segment_not_present", <<>> >>,
       <<12, "stack_segment_fault", <<>> >>,
       <<13, "general_protection_fault", <<>> >>, <<14, "page_fault", <<>> >>,
       <<16, "x87_floating_point", <<>> >>, <<17, "alignment_check", <<>> >>,
       <<18, "machine_check", <<>> >>, <<19, "simd_floating_point", <<>> >>,
       <<20, "virtualization", <<>> >>, <<21, "cp_protection_exception", <<>> >>,
       <<28, "hv_injection_exception", <<>> >>,
       <<29, "vmm_communication_exception", <<>> >>,
       <<30, "security_exception", <<>> >>,
       <<32, "pit_handler", <<>> >>, <<33, "keyboard_handler", <<>> >> >>

\* as_fn_ptr!: the address of a function; the link assigns distinct non-zero
\* addresses, here by the function's place in the list above
as_fn_ptr(fn) ==
    LET k == CHOOSE i \in DOMAIN IDT_registrations : IDT_registrations[i][2] = fn
    IN  Bits(2097152 + 64 * k)

\* InterruptDescriptorTable::new: exceptions [missing; 32] then interrupts
\* [missing; 224], indexed here by vector (interrupts[i] is vector 32 + i)
IDT_VECTORS == 256
InterruptDescriptorTable_new == ArrayOf(IDT_VECTORS, IDTEntry_missing)

\* size_of::<IDTEntry>() for #[repr(C)]: u16, u16, u16, u16, u32, u32
IDT_ENTRY_SIZE == 16

\* InterruptDescriptorTable::pointer, for the table at `addr`:
\* limit is (size_of::<Self>() - 1) as u16
InterruptDescriptorTable_pointer(self, addr) ==
    [limit |-> AsU16(Bits(self.len * IDT_ENTRY_SIZE - 1)), base |-> addr]

RECURSIVE IDT_register(_, _, _)
IDT_register(idt, k, cs) ==
    IF k > Len(IDT_registrations) THEN idt
    ELSE LET r == IDT_registrations[k]
         IN  IDT_register(
                 ArraySet(idt, r[1],
                     IDTEntry_set_entry(ArrayGet(idt, r[1]), as_fn_ptr(r[2]), r[3], cs)),
                 k + 1, cs)

\* lazy_static IDT, built while the CS register holds `cs`
IDT_build(cs) == IDT_register(InterruptDescriptorTable_new, 1, cs)

(***************************************************************************)
(* State                                                                   *)
(***************************************************************************)
VARIABLES
    cr3,              \* the CR3 register: root table address plus control bits
    phys_mem_offset,  \* boot_info.physical_memory_offset
    phys_mem,         \* physical memory: table frame -> index -> entry
    va,               \* the argument of translate_addr
    xlate,            \* the call's progress or outcome, with the tables it dereferenced
    xlate_first       \* <<the outcome of the first call>> once a second call began

VARIABLES
    machine,          \* "off", "running", or "fatal" (a triple fault: the CPU shuts down)
    stack,            \* kernel_main and, above it, the handlers that interrupted
    cs_reg, ds_reg, tr_reg,   \* segment registers and the task register
    if_flag,          \* RFLAGS.IF
    GDT, TSS, IDT,    \* the lazy statics: <<>> until first touched, then <<value>>
    gdtr, idtr,       \* the pointer lgdt / lidt loaded: <<>> before, then <<pointer>>
    lock,             \* VGA_WRITER: 0 when free, else the depth of its holder
    console,          \* the report written last
    boot_log,         \* the boot events so far, in order
    l4_left           \* used entries of the root table still to be printed

VARIABLES
    arg,              \* the arguments of a call of the address and page arithmetic
    ret,              \* what the call returned
    iter,             \* a range being iterated: its start and end as they are now
    yielded,          \* what next() returned so far, in order
    page_table        \* a PageTable under construction

VARIABLES
    writer            \* the VGAWriter behind VGA_WRITER: <<>>, or <<its fields>>

lvars == <<arg, ret, iter, yielded, page_table, writer>>
xvars == <<cr3, phys_mem_offset, phys_mem, va, xlate, xlate_first, lvars>>
bvars == <<machine, stack, cs_reg, ds_reg, tr_reg, if_flag, GDT, TSS, IDT,
           gdtr, idtr, lock, console, boot_log, l4_left>>
vars == <<xvars, bvars>>

(***************************************************************************)
(* Physical memory as an arena: tables live at physical frames, and the    *)
(* offset is the one rule from a physical address to a reference.          *)
(***************************************************************************)
\* the table behind the reference `virt` (table_ptr = virt as *const PageTable)
Deref(mem, offset, virt) ==
    IF \E g \in DOMAIN mem : Add64(offset, Bits(g)) = virt
    THEN mem[CHOOSE g \in DOMAIN mem : Add64(offset, Bits(g)) = virt]
    ELSE <<>>   \* a frame the model does not fill reads as zeroes

\* impl Index<PageTableIndex> for PageTable; entries not written are zero
PageTable_index(table, index) ==
    IF index \in DOMAIN table THEN table[index] ELSE {}

\* read_cr3: mask the control bits, align to 4 KiB
read_cr3(reg) == align_down(reg \cap BitRange(12, 51), PAGE_4KB_SIZE)

\* inner_translate_addr: let table_indexes = [...]
table_indexes(addr) ==
    <<p1_index(addr), p2_index(addr), p3_index(addr), p4_index(addr)>>

RECURSIVE walk(_, _, _, _, _, _, _)
\* the loop of inner_translate_addr from `frame` over the indexes left;
\* `tables` are the references dereferenced and `entries` the entries read.
\* With overflow checks `phys_mem_offset + frame` panics when it overflows,
\* before anything is read
walk(mem, offset, frame, indexes, tables, entries, checks) ==
    IF indexes = <<>>
    THEN [kind |-> "Walked", frame |-> frame, tables |-> tables, entries |-> entries]
    ELSE IF checks /\ AddOverflows(offset, frame)
    THEN [kind |-> "panic", frame |-> {}, tables |-> tables, entries |-> entries]
    ELSE LET virt  == Add64(offset, frame)
             table == Deref(mem, offset, virt)
             entry == PageTable_index(table, Head(indexes))
             r     == PageTableEntry_frame(entry)
             ts    == Append(tables, virt)
             es    == Append(entries, entry)
         IN  CASE r.kind = "Ok" ->
                    walk(mem, offset, r.frame, Tail(indexes), ts, es, checks)
               [] r.kind = "FrameNotPresent" ->
                    [kind |-> "None", frame |-> {}, tables |-> ts, entries |-> es]
               [] r.kind = "HugeFrame" ->
                    [kind |-> "panic", frame |-> {}, tables |-> ts, entries |-> es]

\* inner_translate_addr
inner_translate_addr(mem, reg, addr, offset, checks) ==
    LET w == walk(mem, offset, read_cr3(reg), table_indexes(addr), <<>>, <<>>, checks)
    IN  IF w.kind = "Walked"
        THEN IF checks /\ AddOverflows(w.frame, Bits(page_offset(addr)))
             THEN [kind |-> "panic", value |-> {},
                   tables |-> w.tables, entries |-> w.entries]
             ELSE [kind |-> "Some", value |-> Add64(w.frame, Bits(page_offset(addr))),
                   tables |-> w.tables, entries |-> w.entries]
        ELSE [kind |-> w.kind, value |-> {},
              tables |-> w.tables, entries |-> w.entries]

\* translate_addr
translate_addr(mem, reg, addr, offset, checks) ==
    inner_translate_addr(mem, reg, addr, offset, checks)

(***************************************************************************)
(* Inputs of the translator: a 4-level tree with one table per level       *)
(***************************************************************************)
TableFrames == {4096, 8192, 12288, 20480}
\* the table frame of each level (4 = root)
TableOfLevel(level) ==
    CASE level = 4 -> 4096 [] level = 3 -> 8192 [] level = 2 -> 12288 [] level = 1 -> 20480
\* the data frame mapped by each index of the level-1 table
DataFrameOf(index) == IF index = 1 THEN 16384 ELSE 24576
TestIndexes == {1, 2}
TestOffsets == {35}
TestCr3 == {Bits(4096 + 24)}
TestPhysMemOffsets == {Bits(1048576)}

\* what an entry of a table may hold: nothing, a mapping, a huge mapping
EntryChoices(level, index) ==
    LET target == IF level = 1 THEN DataFrameOf(index) ELSE TableOfLevel(level - 1)
    IN  { {}, Bits(target) \cup PRESENT \cup WRITABLE,
              Bits(target) \cup PRESENT \cup HUGE_PAGE }

\* a plain mapping: present and not huge
IsMapping(entry) == PRESENT \subseteq entry /\ ~(HUGE_PAGE \subseteq entry)

\* the tables tried at a level: at least one of the entries is a plain mapping
TestTables(level) ==
    {t \in [TestIndexes -> UNION {EntryChoices(level, i) : i \in TestIndexes}] :
        /\ \A i \in TestIndexes : t[i] \in EntryChoices(level, i)
        /\ \E i \in TestIndexes : IsMapping(t[i])}

TestMemories ==
    {[f \in TableFrames |->
        CASE f = 4096 -> t4 [] f = 8192 -> t3 [] f = 12288 -> t2 [] f = 20480 -> t1] :
        t4 \in TestTables(4), t3 \in TestTables(3),
        t2 \in TestTables(2), t1 \in TestTables(1)}

\* the virtual address with the given indexes and offset
VirtOf(i4, i3, i2, i1, off) ==
    Shl(Bits(i4), 39) \cup Shl(Bits(i3), 30) \cup Shl(Bits(i2), 21)
        \cup Shl(Bits(i1), 12) \cup Bits(off)

TestAddrs ==
    {VirtOf(i4, i3, i2, i1, off) :
        i4 \in TestIndexes, i3 \in TestIndexes, i2 \in TestIndexes,
        i1 \in TestIndexes, off \in TestOffsets}

\* no call of the arithmetic, no range, no table is part of the run
NoCall == [op |-> "none"]
LibIdle ==
    /\ arg = <<>> /\ ret = NoCall /\ iter = <<>> /\ yielded = <<>> /\ page_table = <<>>
    /\ writer = <<>>

\* a run of the translator: the build profile (overflow checks on or off) is
\* the only input besides the translator's own
BuildProfiles == {[checks |-> b] : b \in BOOLEAN}
XLib ==
    /\ arg \in BuildProfiles /\ ret = NoCall /\ iter = <<>> /\ yielded = <<>>
    /\ page_table = <<>> /\ writer = <<>>

\* nothing written yet
NoReport == [by |-> "none", args |-> {}]

\* the machine is not part of a run of the translator
MachineOff ==
    /\ machine = "off" /\ stack = <<>> /\ cs_reg = 0 /\ ds_reg = 0 /\ tr_reg = 0
    /\ if_flag = FALSE /\ GDT = <<>> /\ TSS = <<>> /\ IDT = <<>>
    /\ gdtr = <<>> /\ idtr = <<>> /\ lock = 0 /\ console = NoReport
    /\ boot_log = <<>> /\ l4_left = 0

XInit ==
    /\ cr3 \in TestCr3
    /\ phys_mem_offset \in TestPhysMemOffsets
    /\ phys_mem \in TestMemories
    /\ va \in TestAddrs
    /\ xlate = [kind |-> "idle"]
    /\ xlate_first = <<>>
    /\ XLib
    /\ MachineOff

\* a call of translate_addr(va, phys_mem_offset); it reads and changes nothing
Translate ==
    /\ xlate.kind = "idle"
    /\ xlate' = translate_addr(phys_mem, cr3, va, phys_mem_offset, arg.checks)
    /\ UNCHANGED <<cr3, phys_mem_offset, phys_mem, va, xlate_first, lvars>>
    /\ UNCHANGED bvars

XNext == Translate

SpecTranslate == XInit /\ [][XNext]_vars

(***************************************************************************)
(* The kernel on its one core: kernel_main, and the handlers that the      *)
(* hardware enters through the IDT                                         *)
(***************************************************************************)
MaxNest == 1          \* handlers nested above kernel_main
MaxL4Entries == 1     \* used entries of the root table that kernel_main prints
BootSelectors == {8, 24}            \* the code selector the bootloader leaves in CS
TestTssAddr == Bits(3145728) \cup {33}      \* where the link puts TSS
TestStackAddr == Bits(4194304)              \* and the double-fault STACK
TestGdtAddr == Bits(5242880)                \* and the GDT
TestIdtAddr == Bits(6291456)                \* and the IDT

\* mutant: the interrupt table is loaded before the segment tables
kernel_main_IdtFirst ==
    <<"println", "load_idt", "load_gdt", "PICS.initialize", "init_pit", "sti",
      "active_level_4_table", "l4_loop", "hlt">>

\* kernel_main, statement by statement
kernel_main ==
    <<"println", "load_gdt", "load_idt", "PICS.initialize", "init_pit", "sti",
      "active_level_4_table", "l4_loop", "hlt">>

ExceptionHandlers ==
    {IDT_registrations[k][2] : k \in {i \in DOMAIN IDT_registrations :
                                        IDT_registrations[i][1] < 32}}

\* tables/exceptions.rs: breakpoint prints with println! and returns; every
\* other handler is one panic!, which runs the panic handler of main.rs:
\* println!("{}", info); loop {}. What the print formats is the parameter
\* stack_frame, whose read is stack_frame_read below: it can fault, before
\* the lock is tried or while it is held, and then the statement never ends
exception_body(fn) ==
    IF fn = "breakpoint" THEN <<"println", "ret">> ELSE <<"panic", "loop">>

\* pic/timer.rs
pit_handler == <<"notify_end_of_interrupt", "iretq">>

\* pic/keyboard.rs: the print! runs only for a decoded Unicode key
keyboard_handler == <<"read_scancode", "print", "notify_end_of_interrupt", "iretq">>

\* mutant: the keyboard handler acknowledges the timer's vector
notify_end_of_interrupt_arg_TimerOnly(fn) == 32

\* the argument of PICS.lock().notify_end_of_interrupt(..) in each handler
notify_end_of_interrupt_arg(fn) ==
    CASE fn = "pit_handler" -> 32
      [] fn = "keyboard_handler" -> 33

Program(fn) ==
    CASE fn = "kernel_main" -> kernel_main
      [] fn = "pit_handler" -> pit_handler
      [] fn = "keyboard_handler" -> keyboard_handler
      [] OTHER -> exception_body(fn)

\* the statements that go through _print
PrintLabels == {"println", "print", "panic", "l4_loop"}

\* what a print formats besides its text: the arguments of its format string.
\* kernel_main has two prints: the greeting, with no argument, and in the loop
\* over the root table println!("L4 Entry {}: {:?}", i, entry)
format_args(fn, stmt) ==
    CASE fn = "kernel_main" /\ stmt = "l4_loop" -> {"i", "entry"}
      [] fn = "kernel_main" -> {}
      [] fn = "inner_translate_addr" -> {}
      [] fn = "keyboard_handler" -> {"character"}
      [] OTHER -> {"stack_frame"}

\* the vector a context was entered through; kernel_main through none
NoVector == 0 - 1

\* a context on the one stack: the function, its position, the state of its
\* print, the key it decoded, the RFLAGS.IF it interrupted, what it wrote,
\* the vector it was entered through, the end-of-interrupts it issued and
\* what its read of the parameter stack_frame met
Frame(fn, ret_if, vec) ==
    [fn |-> fn, pc |-> 1, pr |-> "none", key |-> FALSE, ret_if |-> ret_if, out |-> NoReport,
     vec |-> vec, eoi |-> <<>>, sf |-> "unread"]

\* the handlers of exceptions.rs are plain fns taking InterruptStackFrameValue
\* by value, registered by address (as_fn_ptr!). Entered through a gate they
\* are passed nothing: the 40 bytes of the parameter are read through
\* whatever RDI held when the exception was raised. The read meets the frame
\* the CPU pushed (RDI happens to point at it), other readable memory, an
\* address that is not mapped (a page fault) or one that is not canonical (a
\* general protection fault). The device handlers are extern "x86-interrupt"
\* and do not read their parameter.
stack_frame_read(fn) ==
    IF fn \in ExceptionHandlers
    THEN {"trap_frame", "other_memory", "unmapped", "non_canonical"}
    ELSE {"unread"}

depth == Len(stack)
top == stack[depth]
label == Program(top.fn)[top.pc]
Running == machine = "running" /\ depth > 0

SetTop(f) == [stack EXCEPT ![depth] = f]
Advance == SetTop([top EXCEPT !.pc = @ + 1])

BInit ==
    /\ machine = "running"
    /\ stack = <<Frame("kernel_main", FALSE, NoVector)>>
    /\ cs_reg \in BootSelectors
    /\ ds_reg = 0 /\ tr_reg = 0
    /\ if_flag = FALSE
    /\ GDT = <<>> /\ TSS = <<>> /\ IDT = <<>>
    /\ gdtr = <<>> /\ idtr = <<>>
    /\ lock = 0
    /\ console = NoReport
    /\ boot_log = <<>>
    /\ l4_left \in 0..MaxL4Entries

\* whether the print at the current statement runs
PrintRuns ==
    CASE label = "print" -> top.key
      [] label = "l4_loop" -> l4_left > 0
      [] OTHER -> TRUE

\* spin::Mutex::lock succeeds only while the lock is free; else it spins
VGA_WRITER_lock == lock = 0

\* _print: VGA_WRITER.lock()
Lock ==
    /\ Running /\ label \in PrintLabels /\ top.pr = "none" /\ PrintRuns
    /\ VGA_WRITER_lock
    /\ lock' = depth
    /\ stack' = SetTop([top EXCEPT !.pr = "held"])
    /\ UNCHANGED <<xvars, machine, cs_reg, ds_reg, tr_reg, if_flag, GDT, TSS, IDT, gdtr, idtr,
                   console, boot_log, l4_left>>

\* _print: .write_fmt(args); a handler of exceptions.rs formats its parameter
\* stack_frame, read here when the read does not fault
Write ==
    /\ Running /\ top.pr = "held"
    /\ LET report == [by |-> top.fn, args |-> format_args(top.fn, label)] IN
        \E s \in stack_frame_read(top.fn) \ {"unmapped", "non_canonical"} :
            /\ console' = report
            /\ stack' = SetTop([top EXCEPT !.pr = "written", !.out = report, !.sf = s])
    /\ UNCHANGED <<xvars, machine, cs_reg, ds_reg, tr_reg, if_flag, GDT, TSS, IDT, gdtr, idtr,
                   lock, boot_log, l4_left>>

\* _print: the guard is dropped at the end of the statement
Unlock ==
    /\ Running /\ top.pr = "written"
    /\ lock' = 0
    /\ IF label = "l4_loop"
       THEN /\ stack' = SetTop([top EXCEPT !.pr = "none"])
            /\ l4_left' = l4_left - 1
       ELSE /\ stack' = SetTop([top EXCEPT !.pr = "none", !.pc = @ + 1])
            /\ UNCHANGED l4_left
    /\ UNCHANGED <<xvars, machine, cs_reg, ds_reg, tr_reg, if_flag, GDT, TSS, IDT, gdtr, idtr,
                   console, boot_log>>

\* a statement whose print does not run: no key decoded, or the loop is over
SkipPrint ==
    /\ Running /\ label \in PrintLabels /\ top.pr = "none" /\ ~PrintRuns
    /\ stack' = Advance
    /\ UNCHANGED <<xvars, machine, cs_reg, ds_reg, tr_reg, if_flag, GDT, TSS, IDT, gdtr, idtr,
                   lock, console, boot_log, l4_left>>

\* load_gdt: GDT.load() (first touch builds TSS, then GDT), CS and DS reload, ltr
load_gdt ==
    /\ Running /\ label = "load_gdt"
    /\ TSS' = IF TSS = <<>> THEN <<TSS_build(TestStackAddr)>> ELSE TSS
    /\ GDT' = IF GDT = <<>> THEN <<GDT_build(TestTssAddr)>> ELSE GDT
    /\ gdtr' = <<GlobalDescriptorTable_pointer(GDT'[1], TestGdtAddr)>>
    /\ cs_reg' = SegmentSelector_new(2, 0, 0)
    /\ ds_reg' = SegmentSelector_new(3, 0, 0)
    /\ tr_reg' = SegmentSelector_new(7, 0, 0)
    /\ boot_log' = boot_log
                    \o (IF TSS = <<>> THEN <<"tss_build">> ELSE <<>>)
                    \o (IF GDT = <<>> THEN <<"gdt_build">> ELSE <<>>)
                    \o <<"lgdt", "cs_reload", "ds_reload", "ltr">>
    /\ stack' = Advance
    /\ UNCHANGED <<xvars, machine, if_flag, IDT, idtr, lock, console, l4_left>>

\* load_idt: IDT.load() (first touch builds the IDT, reading CS), lidt
load_idt ==
    /\ Running /\ label = "load_idt"
    /\ IDT' = IF IDT = <<>> THEN <<IDT_build(cs_reg)>> ELSE IDT
    /\ idtr' = <<InterruptDescriptorTable_pointer(IDT'[1], TestIdtAddr)>>
    /\ boot_log' = boot_log
                    \o (IF IDT = <<>> THEN <<"idt_build">> ELSE <<>>)
                    \o <<"lidt">>
    /\ stack' = Advance
    /\ UNCHANGED <<xvars, machine, cs_reg, ds_reg, tr_reg, if_flag, GDT, TSS, gdtr,
                   lock, console, l4_left>>

\* pic::PICS.lock().initialize() and init_pit(50): port writes only
InitDevice ==
    /\ Running /\ label \in {"PICS.initialize", "init_pit"}
    /\ boot_log' = Append(boot_log, label)
    /\ stack' = Advance
    /\ UNCHANGED <<xvars, machine, cs_reg, ds_reg, tr_reg, if_flag, GDT, TSS, IDT, gdtr, idtr,
                   lock, console, l4_left>>

\* asm!("sti")
sti ==
    /\ Running /\ label = "sti"
    /\ if_flag' = TRUE
    /\ boot_log' = Append(boot_log, "sti")
    /\ stack' = Advance
    /\ UNCHANGED <<xvars, machine, cs_reg, ds_reg, tr_reg, GDT, TSS, IDT, gdtr, idtr,
                   lock, console, l4_left>>

\* PICS.lock().notify_end_of_interrupt(vector). PICS is free whenever a device
\* handler runs: kernel_main holds it only inside initialize(), before sti,
\* and a device handler runs with RFLAGS.IF clear, so none interrupts another
NotifyEndOfInterrupt ==
    /\ Running /\ label = "notify_end_of_interrupt"
    /\ stack' = SetTop([top EXCEPT !.pc = @ + 1,
                                   !.eoi = Append(@, notify_end_of_interrupt_arg(top.fn))])
    /\ UNCHANGED <<xvars, machine, cs_reg, ds_reg, tr_reg, if_flag, GDT, TSS, IDT, gdtr, idtr,
                   lock, console, boot_log, l4_left>>

\* active_level_4_table, read_scancode: steps that touch nothing of this
\* state but the context's own frame
Step ==
    /\ Running
    /\ label \in {"active_level_4_table", "read_scancode"}
    /\ \E k \in BOOLEAN :
        /\ label # "read_scancode" => k = FALSE
        /\ stack' = SetTop([top EXCEPT !.pc = @ + 1, !.key = k])
    /\ UNCHANGED <<xvars, machine, cs_reg, ds_reg, tr_reg, if_flag, GDT, TSS, IDT, gdtr, idtr,
                   lock, console, boot_log, l4_left>>

\* the end of an extern "x86-interrupt" fn: iretq restores the saved RFLAGS
Iretq ==
    /\ Running /\ label = "iretq"
    /\ stack' = SubSeq(stack, 1, depth - 1)
    /\ if_flag' = top.ret_if
    /\ UNCHANGED <<xvars, machine, cs_reg, ds_reg, tr_reg, GDT, TSS, IDT, gdtr, idtr,
                   lock, console, boot_log, l4_left>>

\* the end of breakpoint, a plain fn: ret pops the saved instruction pointer
\* and leaves RFLAGS as the gate set it
Ret ==
    /\ Running /\ label = "ret"
    /\ stack' = SubSeq(stack, 1, depth - 1)
    /\ UNCHANGED <<xvars, machine, cs_reg, ds_reg, tr_reg, if_flag, GDT, TSS, IDT, gdtr, idtr,
                   lock, console, boot_log, l4_left>>

\* the handlers on the stack: the contexts entered through a vector (the
\* panic handler called by the kernel context is none)
nested == Cardinality({i \in DOMAIN stack : stack[i].vec # NoVector})

\* the function whose address a gate holds
HandlerAt(addr) ==
    IDT_registrations[CHOOSE k \in DOMAIN IDT_registrations :
                        as_fn_ptr(IDT_registrations[k][2]) = addr][2]

\* the vectors raised in a run, one or more of each kind of gate: an exception
\* without error code (divide error 0, invalid opcode 6), the NMI (2),
\* breakpoint (3), double fault (8), exceptions with an error code (general
\* protection 13, page fault 14, security exception 30), vectors idt.rs
\* registers nothing for (9, 31), the timer (32) and the keyboard (33)
TestVectors == {0, 2, 3, 6, 8, 9, 13, 14, 30, 31, 32, 33}

\* the vectors the hardware may deliver now: exceptions and the NMI at any
\* time, the two device lines only while RFLAGS.IF is set
Deliverable(v) ==
    /\ Running /\ idtr # <<>> /\ nested < MaxNest
    /\ v >= 32 => (if_flag /\ "init_pit" \in {boot_log[i] : i \in DOMAIN boot_log})

\* the contributory exceptions: divide error, invalid TSS, segment not
\* present, stack segment fault, general protection. A segment-not-present
\* raised while one of them, or a page fault, is being delivered makes a
\* double fault
Contributory == {0, 10, 11, 12, 13}

\* the vector whose gate the CPU enters when vector v is raised, NoVector
\* when it shuts down. A gate that is not present raises segment-not-present
\* (vector 11) in place of its vector; raised while a contributory exception
\* or a page fault is being delivered, that is a double fault (vector 8);
\* a fault in the delivery of the double fault is a triple fault
gate_entered(idt, v) ==
    LET present(u) == IDTEntry_present(ArrayGet(idt, u))
        double_fault == IF present(8) THEN 8 ELSE NoVector
    IN  IF present(v) THEN v
        ELSE IF v = 8 THEN NoVector
        ELSE IF v \in Contributory \cup {14} THEN double_fault
        ELSE IF present(11) THEN 11
        ELSE double_fault

\* the hardware enters the handler of a present gate (that of the vector, or
\* of the fault its missing gate raises); an interrupt gate clears RFLAGS.IF,
\* a trap gate leaves it
Deliver ==
    \E v \in TestVectors :
        /\ Deliverable(v)
        /\ gate_entered(IDT[1], v) # NoVector
        /\ LET e == gate_entered(IDT[1], v)
               gate == ArrayGet(IDT[1], e) IN
            /\ stack' = Append(stack, Frame(HandlerAt(IDTEntry_pointer(gate)), if_flag, e))
            /\ if_flag' = (if_flag /\ 8 \in gate.options)
        /\ UNCHANGED <<xvars, machine, cs_reg, ds_reg, tr_reg, GDT, TSS, IDT, gdtr, idtr,
                       lock, console, boot_log, l4_left>>

\* the fault a read of stack_frame raises: a page fault (vector 14) through
\* an address that is not mapped, a general protection fault (vector 13)
\* through one that is not canonical
stack_frame_fault(read) == IF read = "non_canonical" THEN 13 ELSE 14

\* a handler of exceptions.rs reads its parameter through an RDI that cannot
\* be read: a fault inside the handler. Where the build puts the read is its
\* choice: on entry, before the lock is tried, or while the report is
\* formatted, with VGA_WRITER held and the text before the parameter already
\* on the screen. The handler's statement never ends: the handlers of both
\* faults do not return. (The faults nest one deeper than the vectors
\* delivered from outside, and no deeper.)
ArgFault ==
    /\ Running /\ idtr # <<>> /\ nested <= MaxNest
    /\ label \in {"println", "panic"} /\ top.pr \in {"none", "held"}
    /\ \E read \in stack_frame_read(top.fn) \cap {"unmapped", "non_canonical"} :
        LET e == gate_entered(IDT[1], stack_frame_fault(read))
            gate == ArrayGet(IDT[1], e)
            partial == [by |-> top.fn, args |-> {}]
            here == SetTop([top EXCEPT !.pr = "fault", !.sf = read,
                                       !.out = IF top.pr = "held" THEN partial ELSE @])
        IN  /\ console' = IF top.pr = "held" THEN partial ELSE console
            /\ IF e # NoVector
               THEN /\ stack' = Append(here, Frame(HandlerAt(IDTEntry_pointer(gate)), if_flag, e))
                    /\ if_flag' = (if_flag /\ 8 \in gate.options)
                    /\ UNCHANGED machine
               ELSE /\ machine' = "fatal"
                    /\ stack' = here
                    /\ UNCHANGED if_flag
    /\ UNCHANGED <<xvars, cs_reg, ds_reg, tr_reg, GDT, TSS, IDT, gdtr, idtr,
                   lock, boot_log, l4_left>>

\* a vector that ends in a triple fault (the double fault, whose gate is not
\* present): the CPU shuts down
DeliverMissing ==
    \E v \in TestVectors :
        /\ Deliverable(v)
        /\ gate_entered(IDT[1], v) = NoVector
        /\ machine' = "fatal"
        /\ UNCHANGED <<xvars, stack, cs_reg, ds_reg, tr_reg, if_flag, GDT, TSS, IDT, gdtr, idtr,
                       lock, console, boot_log, l4_left>>

XIdle ==
    /\ cr3 = {} /\ phys_mem_offset = {} /\ phys_mem = <<>> /\ va = {}
    /\ xlate = [kind |-> "idle"]
    /\ xlate_first = <<>>
    /\ LibIdle

Init == BInit /\ XIdle

Next ==
    \/ Lock
    \/ Write
    \/ Unlock
    \/ SkipPrint
    \/ load_gdt
    \/ load_idt
    \/ InitDevice
    \/ sti
    \/ Step
    \/ NotifyEndOfInterrupt
    \/ Iretq
    \/ Ret
    \/ Deliver
    \/ DeliverMissing
    \/ ArgFault

Spec == Init /\ [][Next]_vars

(***************************************************************************)
(* The translator called in kernel context while the devices interrupt:    *)
(* the walk is taken one loop iteration at a time, so that handlers run    *)
(* between and during the calls                                            *)
(***************************************************************************)
\* one iteration of the loop of inner_translate_addr: the reference formed,
\* the entry read through it (a shared reference: memory stays as it is)
\* and what entry.frame() answers. With overflow checks the addition that
\* forms the reference panics when it overflows, and nothing is read
walk_step(mem, offset, frame, index, checks) ==
    LET virt  == Add64(offset, frame)
        entry == PageTable_index(Deref(mem, offset, virt), index)
    IN  IF checks /\ AddOverflows(offset, frame)
        THEN [virt |-> {}, entry |-> {}, r |-> [kind |-> "panic"], mem |-> mem]
        ELSE [virt |-> virt, entry |-> entry, r |-> PageTableEntry_frame(entry),
              mem |-> mem]

\* the tables of this run: under the code's walk (root by p1, then p2, p3, p4)
\* an address with p1 = 2 is not mapped, one with p1 = 1, p2 = 2 meets a huge
\* entry, and one with p1 = p2 = 1 is mapped
IrqMemory ==
    [f \in TableFrames |->
        CASE f = 4096  -> (1 :> (Bits(8192) \cup PRESENT \cup WRITABLE) @@ 2 :> {})
          [] f = 8192  -> (1 :> (Bits(12288) \cup PRESENT \cup WRITABLE)
                           @@ 2 :> (Bits(12288) \cup PRESENT \cup HUGE_PAGE))
          [] f = 12288 -> (1 :> (Bits(20480) \cup PRESENT \cup WRITABLE)
                           @@ 2 :> (Bits(20480) \cup PRESENT \cup WRITABLE))
          [] f = 20480 -> (1 :> (Bits(DataFrameOf(1)) \cup PRESENT \cup WRITABLE)
                           @@ 2 :> (Bits(DataFrameOf(2)) \cup PRESENT \cup WRITABLE))]

\* the addresses translated in this run
IrqAddrs == {VirtOf(1, 1, 1, 1, 35), VirtOf(2, 1, 2, 1, 35), VirtOf(1, 1, 1, 2, 35)}

\* the kernel context is in its idle loop, where a call can be made
AtIdleLoop == Running /\ depth = 1 /\ top.fn = "kernel_main" /\ label = "hlt"

IrqInit ==
    /\ BInit
    /\ cr3 \in TestCr3
    /\ phys_mem_offset \in TestPhysMemOffsets
    /\ phys_mem = IrqMemory
    /\ va = {}
    /\ xlate = [kind |-> "idle"]
    /\ xlate_first = <<>>
    /\ XLib

\* translate_addr(addr, phys_mem_offset) is entered: let mut frame = read_cr3()
\* and the indexes; the second call is made on the address of the first
TranslateCall ==
    /\ AtIdleLoop
    /\ \/ xlate.kind = "idle" /\ xlate_first' = <<>> /\ va' \in IrqAddrs
       \/ xlate.kind \in {"Some", "None"} /\ xlate_first = <<>>
            /\ xlate_first' = <<xlate>> /\ va' = va
    /\ xlate' = [kind |-> "walking", frame |-> read_cr3(cr3), left |-> table_indexes(va'),
                 tables |-> <<>>, entries |-> <<>>]
    /\ UNCHANGED <<cr3, phys_mem_offset, phys_mem, lvars, bvars>>

\* the next loop iteration, or past the loop the final Some(frame + offset);
\* at a huge entry (or an addition that overflows under overflow checks) the
\* call ends in panic!: the panic handler of main.rs is called in the kernel
\* context, with RFLAGS.IF as it was, prints and loops
TranslateStep ==
    /\ AtIdleLoop /\ xlate.kind = "walking"
    /\ IF xlate.left = <<>>
       THEN LET overflow == arg.checks /\ AddOverflows(xlate.frame, Bits(page_offset(va)))
            IN  /\ xlate' = IF overflow
                            THEN [kind |-> "panic", value |-> {},
                                  tables |-> xlate.tables, entries |-> xlate.entries]
                            ELSE [kind |-> "Some",
                                  value |-> Add64(xlate.frame, Bits(page_offset(va))),
                                  tables |-> xlate.tables, entries |-> xlate.entries]
                /\ stack' = IF overflow
                            THEN Append(stack, Frame("inner_translate_addr", if_flag, NoVector))
                            ELSE stack
                /\ UNCHANGED phys_mem
       ELSE LET w  == walk_step(phys_mem, phys_mem_offset, xlate.frame, Head(xlate.left),
                                arg.checks)
                ts == IF w.r.kind = "panic" THEN xlate.tables ELSE Append(xlate.tables, w.virt)
                es == IF w.r.kind = "panic" THEN xlate.entries ELSE Append(xlate.entries, w.entry)
            IN  /\ phys_mem' = w.mem
                /\ xlate' =
                     CASE w.r.kind = "Ok" ->
                            [xlate EXCEPT !.frame = w.r.frame, !.left = Tail(@),
                                          !.tables = ts, !.entries = es]
                       [] w.r.kind = "FrameNotPresent" ->
                            [kind |-> "None", value |-> {}, tables |-> ts, entries |-> es]
                       [] w.r.kind \in {"HugeFrame", "panic"} ->
                            [kind |-> "panic", value |-> {}, tables |-> ts, entries |-> es]
                /\ stack' = IF w.r.kind \in {"HugeFrame", "panic"}
                            THEN Append(stack, Frame("inner_translate_addr", if_flag, NoVector))
                            ELSE stack
    /\ UNCHANGED <<cr3, phys_mem_offset, va, xlate_first, lvars>>
    /\ UNCHANGED <<machine, cs_reg, ds_reg, tr_reg, if_flag, GDT, TSS, IDT, gdtr, idtr,
                   lock, console, boot_log, l4_left>>

IrqNext == Next \/ TranslateCall \/ TranslateStep

SpecTranslateIrq == IrqInit /\ [][IrqNext]_vars

(***************************************************************************)
(* memory/paging.rs: address arithmetic (impl VirtAddr for u64)            *)
(***************************************************************************)
\* the translator and the machine are not part of a run of the arithmetic
XOff ==
    /\ cr3 = {} /\ phys_mem_offset = {} /\ phys_mem = <<>> /\ va = {}
    /\ xlate = [kind |-> "idle"] /\ xlate_first = <<>>
    /\ MachineOff
    /\ writer = <<>>
ovars == <<cr3, phys_mem_offset, phys_mem, va, xlate, xlate_first, bvars, writer>>

\* i64 >> k: the sign bit fills the places shifted in
Sar(w, k) == Shr(w, k) \cup (IF 63 \in w THEN BitRange(64 - k, 63) ELSE {})

\* mutant: the shift back is done unsigned
new_virt_truncate_ZeroExtend(addr) == Shr(Shl(addr, 16), 16)

\* VirtAddr::new_virt_truncate: ((addr << 16) as i64 >> 16) as u64
new_virt_truncate(addr) == Sar(Shl(addr, 16), 16)

\* the addresses tried: every combination of the bits at the edges of the
\* offset, of the four indexes and of the sign extension
TestAddrBits == {0, 11, 12, 20, 21, 29, 30, 38, 39, 47}
TestHighBits == {{}, {48}, {63}, BitRange(48, 63)}
TestAddresses == {lo \cup hi : lo \in SUBSET TestAddrBits, hi \in TestHighBits}

AddrInit ==
    /\ arg \in {[addr |-> a] : a \in TestAddresses}
    /\ ret = NoCall /\ iter = <<>> /\ yielded = <<>> /\ page_table = <<>>
    /\ XOff

\* u64::new_virt_truncate(addr), and again on its result
Canonicalize ==
    /\ ret = NoCall
    /\ ret' = [op |-> "new_virt_truncate",
               canon |-> new_virt_truncate(arg.addr),
               again |-> new_virt_truncate(new_virt_truncate(arg.addr))]
    /\ UNCHANGED <<arg, iter, yielded, page_table, ovars>>

\* addr.p4_index() .. addr.p1_index(), addr.page_offset()
Decompose ==
    /\ ret = NoCall
    /\ ret' = [op |-> "decompose",
               p4 |-> p4_index(arg.addr), p3 |-> p3_index(arg.addr),
               p2 |-> p2_index(arg.addr), p1 |-> p1_index(arg.addr),
               offset |-> page_offset(arg.addr)]
    /\ UNCHANGED <<arg, iter, yielded, page_table, ovars>>

AddrNext == Canonicalize \/ Decompose

SpecAddr == AddrInit /\ [][AddrNext]_vars

(***************************************************************************)
(* memory/paging.rs: u64 arithmetic as the build does it. With overflow    *)
(* checks (debug profile) an overflowing +, - or * panics; without them    *)
(* (release profile) it wraps. Both profiles are tried.                    *)
(***************************************************************************)
Not64(w) == BitRange(0, 63) \ w

\* wrapping a - b
Sub64(a, b) == AddCarry(a, Not64(b), 0, 1)
SubOverflows(a, b) == Lt64(a, b)

\* the exponent of a power of two
Log2(value) == CHOOSE j \in value : TRUE

\* wrapping a * size and a / size, for a power of two `size`
Mul64(a, size) == Shl(a, Log2(size))
MulOverflows(a, size) == \E i \in a : i + Log2(size) > 63
Div64(a, size) == Shr(a, Log2(size))

\* PageSize::SIZE for Size4KiB, Size2MiB, Size1GiB
PageSize_SIZE(S) ==
    CASE S = "Size4KiB" -> Bits(4096)
      [] S = "Size2MiB" -> Mul64(Bits(4096), Bits(512))
      [] S = "Size1GiB" -> Mul64(Mul64(Bits(4096), Bits(512)), Bits(512))
PageSizes == {"Size4KiB", "Size2MiB", "Size1GiB"}

\* mutant: alignment is tested against the 4 KiB size whatever the page size
is_aligned_4KiBOnly(self, value) == align_down(self, PAGE_4KB_SIZE) = self

\* PhysAddr::is_aligned
is_aligned(self, value) == align_down(self, value) = self

\* Page::containing_address
Page_containing_address(S, address) ==
    [start_address |-> align_down(address, PageSize_SIZE(S)), size |-> S]

\* Page::from_start_address
Page_from_start_address(S, address) ==
    IF ~is_aligned(address, PageSize_SIZE(S))
    THEN [kind |-> "Err", err |-> "AddressNotAligned"]
    ELSE [kind |-> "Ok", page |-> Page_containing_address(S, address)]

\* PhysFrame::from_start_address_unchecked
PhysFrame_from_start_address_unchecked(S, start_address) ==
    [start_address |-> start_address, size |-> S]

\* PhysFrame::from_start_address
PhysFrame_from_start_address(S, address) ==
    IF ~is_aligned(address, PageSize_SIZE(S))
    THEN [kind |-> "Err", err |-> "AddressNotAligned"]
    ELSE [kind |-> "Ok", page |-> PhysFrame_from_start_address_unchecked(S, address)]

\* PhysFrame::containing_address
PhysFrame_containing_address(S, address) ==
    [start_address |-> align_down(address, PageSize_SIZE(S)), size |-> S]

\* impl Add<u64> for Page: containing_address(start_address + rhs * S::SIZE)
Page_add(checks, self, rhs) ==
    LET size == PageSize_SIZE(self.size)
    IN  IF checks /\ (MulOverflows(rhs, size)
                        \/ AddOverflows(self.start_address, Mul64(rhs, size)))
        THEN [kind |-> "panic"]
        ELSE [kind |-> "Ok",
              page |-> Page_containing_address(self.size,
                            Add64(self.start_address, Mul64(rhs, size)))]

\* impl Sub<u64> for Page: containing_address(start_address - rhs * S::SIZE)
Page_sub(checks, self, rhs) ==
    LET size == PageSize_SIZE(self.size)
    IN  IF checks /\ (MulOverflows(rhs, size)
                        \/ SubOverflows(self.start_address, Mul64(rhs, size)))
        THEN [kind |-> "panic"]
        ELSE [kind |-> "Ok",
              page |-> Page_containing_address(self.size,
                            Sub64(self.start_address, Mul64(rhs, size)))]

\* mutant: the distance is left in bytes
Page_sub_page_InBytes(checks, self, rhs) ==
    IF checks /\ SubOverflows(self.start_address, rhs.start_address)
    THEN [kind |-> "panic"]
    ELSE [kind |-> "Ok", value |-> Sub64(self.start_address, rhs.start_address)]

\* impl Sub<Self> for Page: (start_address - rhs.start_address) / S::SIZE
Page_sub_page(checks, self, rhs) ==
    IF checks /\ SubOverflows(self.start_address, rhs.start_address)
    THEN [kind |-> "panic"]
    ELSE [kind |-> "Ok",
          value |-> Div64(Sub64(self.start_address, rhs.start_address),
                          PageSize_SIZE(self.size))]

\* impl Add<u64> for PhysFrame
PhysFrame_add(checks, self, rhs) ==
    LET size == PageSize_SIZE(self.size)
    IN  IF checks /\ (MulOverflows(rhs, size)
                        \/ AddOverflows(self.start_address, Mul64(rhs, size)))
        THEN [kind |-> "panic"]
        ELSE [kind |-> "Ok",
              page |-> PhysFrame_containing_address(self.size,
                            Add64(self.start_address, Mul64(rhs, size)))]

\* impl Sub<u64> for PhysFrame
PhysFrame_sub(checks, self, rhs) ==
    LET size == PageSize_SIZE(self.size)
    IN  IF checks /\ (MulOverflows(rhs, size)
                        \/ SubOverflows(self.start_address, Mul64(rhs, size)))
        THEN [kind |-> "panic"]
        ELSE [kind |-> "Ok",
              page |-> PhysFrame_containing_address(self.size,
                            Sub64(self.start_address, Mul64(rhs, size)))]

\* impl Sub<PhysFrame<S>> for PhysFrame
PhysFrame_sub_frame(checks, self, rhs) ==
    IF checks /\ SubOverflows(self.start_address, rhs.start_address)
    THEN [kind |-> "panic"]
    ELSE [kind |-> "Ok",
          value |-> Div64(Sub64(self.start_address, rhs.start_address),
                          PageSize_SIZE(self.size))]

\* the addresses tried: aligned and unaligned for each size, low and at the
\* top of the address space; and the counts added
TestPageAddrBits == {0, 12, 21, 30}
TestPageHighBits == {{}, {47}, {63}, BitRange(31, 63)}
TestPageAddrs == {lo \cup hi : lo \in SUBSET TestPageAddrBits, hi \in TestPageHighBits}
TestCounts == {{}, {0}, {1}, {0, 1}, {52}, BitRange(0, 63)}
PageKinds == {"Page", "PhysFrame"}

PageInit ==
    /\ arg \in {[addr |-> a, size |-> S, count |-> n, checks |-> c] :
                    a \in TestPageAddrs, S \in PageSizes, n \in TestCounts, c \in BOOLEAN}
    /\ ret = NoCall /\ iter = <<>> /\ yielded = <<>> /\ page_table = <<>>
    /\ XOff

\* Page::from_start_address(addr) or PhysFrame::from_start_address(addr)
FromStartAddress ==
    /\ ret = NoCall
    /\ \E k \in PageKinds :
        ret' = [op |-> "from_start_address", of |-> k,
                r |-> IF k = "Page" THEN Page_from_start_address(arg.size, arg.addr)
                      ELSE PhysFrame_from_start_address(arg.size, arg.addr)]
    /\ UNCHANGED <<arg, iter, yielded, page_table, ovars>>

\* Page::containing_address(addr) or PhysFrame::containing_address(addr)
ContainingAddress ==
    /\ ret = NoCall
    /\ \E k \in PageKinds :
        ret' = [op |-> "containing_address", of |-> k,
                r |-> IF k = "Page" THEN Page_containing_address(arg.size, arg.addr)
                      ELSE PhysFrame_containing_address(arg.size, arg.addr)]
    /\ UNCHANGED <<arg, iter, yielded, page_table, ovars>>

\* what an operation on the result of a panicked one is: never evaluated
Panicked == [kind |-> "panic"]

\* p + n, then (p + n) - p and (p + n) - n, for p the page containing addr
AddThenSub ==
    /\ ret = NoCall
    /\ \E k \in PageKinds :
        LET c == arg.checks
            n == arg.count
            q == IF k = "Page" THEN Page_containing_address(arg.size, arg.addr)
                 ELSE PhysFrame_containing_address(arg.size, arg.addr)
            sum == IF k = "Page" THEN Page_add(c, q, n) ELSE PhysFrame_add(c, q, n)
        IN  ret' = [op |-> "add_then_sub", of |-> k, p |-> q, sum |-> sum,
                    diff |-> IF sum.kind = "panic" THEN Panicked
                             ELSE IF k = "Page" THEN Page_sub_page(c, sum.page, q)
                             ELSE PhysFrame_sub_frame(c, sum.page, q),
                    back |-> IF sum.kind = "panic" THEN Panicked
                             ELSE IF k = "Page" THEN Page_sub(c, sum.page, n)
                             ELSE PhysFrame_sub(c, sum.page, n)]
    /\ UNCHANGED <<arg, iter, yielded, page_table, ovars>>

PageNext == FromStartAddress \/ ContainingAddress \/ AddThenSub

SpecPage == PageInit /\ [][PageNext]_vars

(***************************************************************************)
(* memory/paging.rs: the range iterators                                  *)
(***************************************************************************)
\* how many calls of next() on one iterator are followed
MaxYield == 5

\* u64::MAX
u64_MAX == BitRange(0, 63)

\* mutant: the exclusive range compares with <=
PageRange_next_Inclusive(checks, self) ==
    IF ~Lt64(self.end.start_address, self.start.start_address)
    THEN LET sum == Page_add(checks, self.start, Bits(1))
         IN  IF sum.kind = "panic" THEN [range |-> self, item |-> Panicked]
             ELSE [range |-> [self EXCEPT !.start = sum.page],
                   item |-> [kind |-> "Some", page |-> self.start]]
    ELSE [range |-> self, item |-> [kind |-> "None"]]

\* impl Iterator for PageRange: next. `self.start += 1` is Page's Add<u64>.
PageRange_next(checks, self) ==
    IF Lt64(self.start.start_address, self.end.start_address)
    THEN LET sum == Page_add(checks, self.start, Bits(1))
         IN  IF sum.kind = "panic" THEN [range |-> self, item |-> Panicked]
             ELSE [range |-> [self EXCEPT !.start = sum.page],
                   item |-> [kind |-> "Some", page |-> self.start]]
    ELSE [range |-> self, item |-> [kind |-> "None"]]

\* mutant: the start is incremented at the maximum page too
PageRangeInclusive_next_AlwaysIncrement(checks, self) ==
    IF ~Lt64(self.end.start_address, self.start.start_address)
    THEN LET sum == Page_add(checks, self.start, Bits(1))
         IN  IF sum.kind = "panic" THEN [range |-> self, item |-> Panicked]
             ELSE [range |-> [self EXCEPT !.start = sum.page],
                   item |-> [kind |-> "Some", page |-> self.start]]
    ELSE [range |-> self, item |-> [kind |-> "None"]]

\* impl Iterator for PageRangeInclusive: next
PageRangeInclusive_next(checks, self) ==
    IF ~Lt64(self.end.start_address, self.start.start_address)
    THEN LET size == PageSize_SIZE(self.start.size)
             max_page_addr == Sub64(u64_MAX, Sub64(size, Bits(1)))
             moved == IF Lt64(self.start.start_address, max_page_addr)
                      THEN Page_add(checks, self.start, Bits(1))
                      ELSE Page_sub(checks, self.end, Bits(1))
         IN  IF moved.kind = "panic" THEN [range |-> self, item |-> Panicked]
             ELSE [range |-> IF Lt64(self.start.start_address, max_page_addr)
                             THEN [self EXCEPT !.start = moved.page]
                             ELSE [self EXCEPT !.end = moved.page],
                   item |-> [kind |-> "Some", page |-> self.start]]
    ELSE [range |-> self, item |-> [kind |-> "None"]]

\* impl Iterator for PhysFrameRangeInclusive: next
PhysFrameRangeInclusive_next(checks, self) ==
    IF ~Lt64(self.end.start_address, self.start.start_address)
    THEN LET sum == PhysFrame_add(checks, self.start, Bits(1))
         IN  IF sum.kind = "panic" THEN [range |-> self, item |-> Panicked]
             ELSE [range |-> [self EXCEPT !.start = sum.page],
                   item |-> [kind |-> "Some", page |-> self.start]]
    ELSE [range |-> self, item |-> [kind |-> "None"]]

\* the pages tried as range ends: the first three and the last three of a size
TestRangeStarts(S) ==
    LET max_page == Page_containing_address(S, u64_MAX).start_address
    IN  {Mul64(Bits(k), PageSize_SIZE(S)) : k \in 0..2}
          \cup {Sub64(max_page, Mul64(Bits(k), PageSize_SIZE(S))) : k \in 0..2}
RangeKinds == {"PageRange", "PageRangeInclusive", "PhysFrameRangeInclusive"}

RangeInit ==
    /\ \E S \in PageSizes :
         arg \in {[start |-> [start_address |-> a, size |-> S],
                    end |-> [start_address |-> b, size |-> S], checks |-> c] :
                        a \in TestRangeStarts(S), b \in TestRangeStarts(S), c \in BOOLEAN}
    /\ ret = NoCall /\ iter = <<>> /\ yielded = <<>> /\ page_table = <<>>
    /\ XOff

\* Page::range, Page::range_inclusive, PhysFrame::range_inclusive
RangeCall ==
    /\ iter = <<>>
    /\ \E k \in RangeKinds : iter' = <<[kind |-> k, start |-> arg.start, end |-> arg.end]>>
    /\ UNCHANGED <<arg, ret, yielded, page_table, ovars>>

\* one call of next() on the iterator; a panic ends the program
RangeNext ==
    /\ iter # <<>>
    /\ Len(yielded) < MaxYield
    /\ IF yielded = <<>> THEN TRUE ELSE yielded[Len(yielded)].kind # "panic"
    /\ LET self == [start |-> iter[1].start, end |-> iter[1].end]
           r == CASE iter[1].kind = "PageRange" -> PageRange_next(arg.checks, self)
                  [] iter[1].kind = "PageRangeInclusive" ->
                         PageRangeInclusive_next(arg.checks, self)
                  [] iter[1].kind = "PhysFrameRangeInclusive" ->
                         PhysFrameRangeInclusive_next(arg.checks, self)
       IN  /\ iter' = <<[kind |-> iter[1].kind, start |-> r.range.start, end |-> r.range.end]>>
           /\ yielded' = Append(yielded, r.item)
    /\ UNCHANGED <<arg, ret, page_table, ovars>>

RangeStep == RangeCall \/ RangeNext

SpecRange == RangeInit /\ [][RangeStep]_vars

(***************************************************************************)
(* memory/paging.rs: PageTableEntry setters and PageTable                  *)
(***************************************************************************)
\* PageTableEntry::new
PageTableEntry_new == {}

\* PageTableEntry::is_unused
PageTableEntry_is_unused(entry) == entry = {}

\* PageTableEntry::set_unused
PageTableEntry_set_unused(entry) == {}

\* PageTableEntry::set_addr: the new entry, or the assert's panic
PageTableEntry_set_addr(entry, addr, flags) ==
    IF ~is_aligned(addr, PAGE_4KB_SIZE) THEN Panicked
    ELSE [kind |-> "Ok", entry |-> addr \cup flags]

\* mutant: the old flags are kept
PageTableEntry_set_flags_KeepOld(entry, flags) == entry \cup flags

\* PageTableEntry::set_flags
PageTableEntry_set_flags(entry, flags) == PageTableEntry_addr(entry) \cup flags

\* PageTableEntry::set_frame: the new entry, or an assert's panic
PageTableEntry_set_frame(entry, frame, flags) ==
    IF HUGE_PAGE \subseteq flags THEN Panicked
    ELSE PageTableEntry_set_addr(entry, frame, flags)

\* PageTable::new
PageTable_new == [i \in 0..(ENTRY_COUNT - 1) |-> PageTableEntry_new]

\* PageTable::zero
PageTable_zero(self) == [i \in 0..(ENTRY_COUNT - 1) |-> PageTableEntry_set_unused(self[i])]

\* mutant: the iterator stops one entry short
PageTable_iter_OneShort(self) == [k \in 1..511 |-> self[k - 1]]

\* PageTable::iter: the entries in the order (0..512).map(|i| &self.entries[i])
PageTable_iter(self) == [k \in 1..512 |-> self[k - 1]]

\* PageTable::is_empty
PageTable_is_empty(self) ==
    LET entries == PageTable_iter(self)
    IN  \A k \in 1..Len(entries) : PageTableEntry_is_unused(entries[k])

\* the entries written, and the addresses and flags written to them
TestEntryIndexes == {0, 1, ENTRY_COUNT - 1}
TestEntryAddrs == {{}, {0}, {12}}
TestEntryFlags == {{}, PRESENT, PRESENT \cup HUGE_PAGE}

TableInit ==
    /\ arg = <<>> /\ ret = NoCall /\ iter = <<>> /\ yielded = <<>> /\ page_table = <<>>
    /\ XOff

\* let table = PageTable::new(); table.is_empty()
TableNew ==
    /\ page_table = <<>>
    /\ page_table' = <<PageTable_new>>
    /\ ret' = [op |-> "new", index |-> 0, prev |-> {}, is_empty |-> PageTable_is_empty(PageTable_new)]
    /\ UNCHANGED <<arg, iter, yielded, ovars>>

\* table.zero(); table.is_empty()
TableZero ==
    /\ page_table # <<>> /\ ret.op # "panic"
    /\ page_table' = <<PageTable_zero(page_table[1])>>
    /\ ret' = [op |-> "zero", index |-> 0, prev |-> {}, is_empty |-> PageTable_is_empty(page_table'[1])]
    /\ UNCHANGED <<arg, iter, yielded, ovars>>

\* table[i].set_addr(addr, flags); table.is_empty()
TableSetAddr ==
    /\ page_table # <<>> /\ ret.op # "panic"
    /\ \E i \in TestEntryIndexes, addr \in TestEntryAddrs, flags \in TestEntryFlags :
        LET r == PageTableEntry_set_addr(page_table[1][i], addr, flags)
        IN  IF r.kind = "panic"
            THEN /\ ret' = [op |-> "panic", index |-> i, prev |-> page_table[1][i], is_empty |-> FALSE]
                 /\ UNCHANGED page_table
            ELSE /\ page_table' = <<[page_table[1] EXCEPT ![i] = r.entry]>>
                 /\ ret' = [op |-> "set_addr", index |-> i, prev |-> page_table[1][i],
                            is_empty |-> PageTable_is_empty(page_table'[1])]
    /\ UNCHANGED <<arg, iter, yielded, ovars>>

\* table[i].set_flags(flags); table.is_empty()
TableSetFlags ==
    /\ page_table # <<>> /\ ret.op # "panic"
    /\ \E i \in TestEntryIndexes, flags \in TestEntryFlags :
        /\ page_table' = <<[page_table[1] EXCEPT
                                ![i] = PageTableEntry_set_flags(page_table[1][i], flags)]>>
        /\ ret' = [op |-> "set_flags", index |-> i, prev |-> page_table[1][i],
                   is_empty |-> PageTable_is_empty(page_table'[1])]
    /\ UNCHANGED <<arg, iter, yielded, ovars>>

\* table[i].set_unused(); table.is_empty()
TableSetUnused ==
    /\ page_table # <<>> /\ ret.op # "panic"
    /\ \E i \in TestEntryIndexes :
        /\ page_table' = <<[page_table[1] EXCEPT
                                ![i] = PageTableEntry_set_unused(page_table[1][i])]>>
        /\ ret' = [op |-> "set_unused", index |-> i, prev |-> page_table[1][i],
                   is_empty |-> PageTable_is_empty(page_table'[1])]
    /\ UNCHANGED <<arg, iter, yielded, ovars>>

TableNext == TableNew \/ TableZero \/ TableSetAddr \/ TableSetFlags \/ TableSetUnused

SpecTable == TableInit /\ [][TableNext]_vars

(***************************************************************************)
(* memory/paging.rs: one PageTableEntry, read and written                  *)
(***************************************************************************)
\* the entry values, addresses and flag sets tried
TestEntryBits == {0, 7, 12, 51, 52, 63}
TestSetAddrs == {{}, {12}, {12, 51}, {0}, {11, 12}, {12, 52}}
TestSetFlags == {{}, PRESENT, PRESENT \cup HUGE_PAGE, WRITABLE \cup {63}, PRESENT \cup {52}}
TestNewFlags == {{}, PRESENT \cup WRITABLE, {63}}

EntryInit ==
    /\ arg \in {[entry |-> e, addr |-> a, flags |-> f, g |-> g] :
                    e \in SUBSET TestEntryBits, a \in TestSetAddrs,
                    f \in TestSetFlags, g \in TestNewFlags}
    /\ ret = NoCall /\ iter = <<>> /\ yielded = <<>> /\ page_table = <<>>
    /\ XOff

\* entry.frame()
EntryFrame ==
    /\ ret = NoCall
    /\ ret' = [op |-> "frame", entry |-> arg.entry, prev |-> arg.entry,
               r |-> PageTableEntry_frame(arg.entry)]
    /\ UNCHANGED <<arg, iter, yielded, page_table, ovars>>

\* entry.set_addr(addr, flags); a panic leaves the entry as it was
EntrySetAddr ==
    /\ ret = NoCall
    /\ LET r == PageTableEntry_set_addr(arg.entry, arg.addr, arg.flags)
       IN  ret' = [op |-> "set_addr", prev |-> arg.entry, r |-> [kind |-> r.kind],
                   entry |-> IF r.kind = "panic" THEN arg.entry ELSE r.entry]
    /\ UNCHANGED <<arg, iter, yielded, page_table, ovars>>

\* entry.set_frame(addr, flags)
EntrySetFrame ==
    /\ ret = NoCall
    /\ LET r == PageTableEntry_set_frame(arg.entry, arg.addr, arg.flags)
       IN  ret' = [op |-> "set_frame", prev |-> arg.entry, r |-> [kind |-> r.kind],
                   entry |-> IF r.kind = "panic" THEN arg.entry ELSE r.entry]
    /\ UNCHANGED <<arg, iter, yielded, page_table, ovars>>

\* entry.set_flags(g), on the entry as given or after a set_addr / set_frame
EntrySetFlags ==
    /\ ret.op \in {"none", "set_addr", "set_frame"}
    /\ ret.op # "none" => ret.r.kind # "panic"
    /\ LET cur == IF ret.op = "none" THEN arg.entry ELSE ret.entry
       IN  ret' = [op |-> "set_flags", prev |-> cur, r |-> [kind |-> "Ok"],
                   entry |-> PageTableEntry_set_flags(cur, arg.g)]
    /\ UNCHANGED <<arg, iter, yielded, page_table, ovars>>

EntryNext == EntryFrame \/ EntrySetAddr \/ EntrySetFrame \/ EntrySetFlags

SpecEntry == EntryInit /\ [][EntryNext]_vars

(***************************************************************************)
(* memory/paging.rs: the constructors of PageTableIndex and PageOffset     *)
(***************************************************************************)
\* mutant: the assert lets 512 through
PageTableIndex_new_OffByOne(index) ==
    IF ~(Val(index) <= ENTRY_COUNT) THEN [kind |-> "panic", value |-> 0]
    ELSE [kind |-> "Ok", value |-> Val(index)]

\* PageTableIndex::new: assert!((index as usize) < ENTRY_COUNT); Self(index)
PageTableIndex_new(index) ==
    IF ~(Val(index) < ENTRY_COUNT) THEN [kind |-> "panic", value |-> 0]
    ELSE [kind |-> "Ok", value |-> Val(index)]

\* PageOffset::new: assert!(offset < (1 << 12)); Self(offset)
PageOffset_new(offset) ==
    IF ~(Val(offset) < 2^12) THEN [kind |-> "panic", value |-> 0]
    ELSE [kind |-> "Ok", value |-> Val(offset)]

\* every u16
U16_MAX == 65535

IndexInit ==
    /\ arg \in {[input |-> n] : n \in 0..U16_MAX}
    /\ ret = NoCall /\ iter = <<>> /\ yielded = <<>> /\ page_table = <<>>
    /\ XOff

\* PageTableIndex::new(input)
IndexNew ==
    /\ ret = NoCall
    /\ ret' = [op |-> "PageTableIndex::new", r |-> PageTableIndex_new(Bits(arg.input))]
    /\ UNCHANGED <<arg, iter, yielded, page_table, ovars>>

\* PageTableIndex::new_truncate(input)
IndexNewTruncate ==
    /\ ret = NoCall
    /\ ret' = [op |-> "PageTableIndex::new_truncate",
               r |-> [kind |-> "Ok", value |-> PageTableIndex_new_truncate(Bits(arg.input))]]
    /\ UNCHANGED <<arg, iter, yielded, page_table, ovars>>

\* PageOffset::new(input)
OffsetNew ==
    /\ ret = NoCall
    /\ ret' = [op |-> "PageOffset::new", r |-> PageOffset_new(Bits(arg.input))]
    /\ UNCHANGED <<arg, iter, yielded, page_table, ovars>>

\* PageOffset::new_truncate(input)
OffsetNewTruncate ==
    /\ ret = NoCall
    /\ ret' = [op |-> "PageOffset::new_truncate",
               r |-> [kind |-> "Ok", value |-> PageOffset_new_truncate(Bits(arg.input))]]
    /\ UNCHANGED <<arg, iter, yielded, page_table, ovars>>

IndexNext == IndexNew \/ IndexNewTruncate \/ OffsetNew \/ OffsetNewTruncate

SpecIndex == IndexInit /\ [][IndexNext]_vars

(***************************************************************************)
(* tables/gdt.rs: the TSS descriptor, for a TSS anywhere in memory         *)
(***************************************************************************)
\* the TSS addresses tried: the edges of the descriptor's base fields
TestTssAddrBits == {2, 15, 16, 23, 24, 31, 32, 47, 48, 63}

TssDescInit ==
    /\ arg \in {[tss |-> a] : a \in SUBSET TestTssAddrBits}
    /\ ret = NoCall /\ iter = <<>> /\ yielded = <<>> /\ page_table = <<>>
    /\ XOff

\* gdt.set_tss(&TSS, 7) on a table of null descriptors
SetTss ==
    /\ ret = NoCall
    /\ ret' = [op |-> "set_tss",
               gdt |-> GlobalDescriptorTable_set_tss(ArrayOf(GDT_ENTRIES, GDTEntry_null),
                                                     arg.tss, 7)]
    /\ UNCHANGED <<arg, iter, yielded, page_table, ovars>>

\* the whole initializer of GDT, for the TSS at that address
GdtBuild ==
    /\ ret = NoCall
    /\ ret' = [op |-> "GDT", gdt |-> GDT_build(arg.tss)]
    /\ UNCHANGED <<arg, iter, yielded, page_table, ovars>>

TssDescNext == SetTss \/ GdtBuild

SpecTssDesc == TssDescInit /\ [][TssDescNext]_vars

(***************************************************************************)
(* memory/paging.rs: stepping a virtual address forward                    *)
(***************************************************************************)
\* ADDRESS_SPACE_SIZE = 0x1_0000_0000_0000
ADDRESS_SPACE_SIZE == {48}

\* VirtAddr::forward_checked_u64. The match compares addr & 0xFFFF800000000000
\* with the literals 0x1 and 0x2, as the code does.
forward_checked_u64(start, count) ==
    IF Lt64(ADDRESS_SPACE_SIZE, count) THEN [kind |-> "None"]
    ELSE IF AddOverflows(start, count) THEN [kind |-> "None"]   \* checked_add(count)?
    ELSE LET addr == Add64(start, count)
             masked == addr \cap BitRange(47, 63)
         IN  IF masked = Bits(1) THEN [kind |-> "Some", addr |-> addr \cup BitRange(44, 60)]
             ELSE IF masked = Bits(2) THEN [kind |-> "None"]
             ELSE [kind |-> "Some", addr |-> addr]

\* VirtAddr::forward_checked_impl: usize is 64 bits wide on x86_64, so
\* u64::try_from(count) is Ok
forward_checked_impl(start, count) == forward_checked_u64(start, count)

\* canonical start addresses at the edges of the two halves, and counts around
\* one page, the half's size and the address space's size
TestStartLowBits == {0, 12, 46}
TestStarts ==
    {lo \cup hi : lo \in (SUBSET TestStartLowBits) \cup {BitRange(0, 46)},
                  hi \in {{}, BitRange(47, 63)}}
TestForwardCounts == (SUBSET {0, 12, 47, 48}) \cup {{63}, BitRange(0, 63)}

ForwardInit ==
    /\ arg \in {[start |-> a, count |-> n] : a \in TestStarts, n \in TestForwardCounts}
    /\ ret = NoCall /\ iter = <<>> /\ yielded = <<>> /\ page_table = <<>>
    /\ XOff

\* u64::forward_checked_u64(start, count)
ForwardCheckedU64 ==
    /\ ret = NoCall
    /\ ret' = [op |-> "forward_checked_u64", r |-> forward_checked_u64(arg.start, arg.count)]
    /\ UNCHANGED <<arg, iter, yielded, page_table, ovars>>

\* u64::forward_checked_impl(start, count)
ForwardCheckedImpl ==
    /\ ret = NoCall
    /\ ret' = [op |-> "forward_checked_impl", r |-> forward_checked_impl(arg.start, arg.count)]
    /\ UNCHANGED <<arg, iter, yielded, page_table, ovars>>

ForwardNext == ForwardCheckedU64 \/ ForwardCheckedImpl

SpecForward == ForwardInit /\ [][ForwardNext]_vars

(***************************************************************************)
(* vga.rs: the console writer. The buffer holds the character of each      *)
(* cell; the colour of every cell is the one update_colors wrote when      *)
(* VGA_WRITER was built and no write changes it.                           *)
(***************************************************************************)
VGA_BUFFER_HEIGHT == 25
VGA_BUFFER_WIDTH == 80

\* how many bytes are written in one run
MaxWrites == 3

\* VGAWriter::scroll
scroll(buffer) ==
    [x \in 0..(VGA_BUFFER_HEIGHT - 1) |->
        IF x < VGA_BUFFER_HEIGHT - 1 THEN buffer[x + 1]
        ELSE [y \in 0..(VGA_BUFFER_WIDTH - 1) |-> 32]]

\* mutant: the row is advanced on the last row too
new_line_NoScroll(self) ==
    [self EXCEPT !.row_pos = @ + 1, !.column_pos = 0]

\* VGAWriter::new_line
new_line(self) ==
    IF self.row_pos + 1 = VGA_BUFFER_HEIGHT
    THEN [self EXCEPT !.buffer = scroll(@), !.column_pos = 0]
    ELSE [self EXCEPT !.row_pos = @ + 1, !.column_pos = 0]

\* VGAWriter::write_byte: the writer afterwards, the cell written (<<>> for a
\* newline) and whether the index was in the buffer (Rust panics when not)
write_byte(self, byte) ==
    IF byte = 10 THEN [w |-> new_line(self), access |-> <<>>, kind |-> "Ok"]
    ELSE LET at == IF self.column_pos + 1 = VGA_BUFFER_WIDTH THEN new_line(self) ELSE self
         IN  IF at.row_pos >= VGA_BUFFER_HEIGHT \/ at.column_pos >= VGA_BUFFER_WIDTH
             THEN [w |-> at, access |-> <<at.row_pos, at.column_pos>>, kind |-> "panic"]
             ELSE [w |-> [at EXCEPT !.buffer[at.row_pos][at.column_pos] = byte,
                                    !.column_pos = @ + 1],
                   access |-> <<at.row_pos, at.column_pos>>, kind |-> "Ok"]

\* VGAWriter::write_string: the byte handed to write_byte for a byte of the string
write_string_byte(byte) ==
    IF (byte >= 32 /\ byte <= 126) \/ byte = 10 THEN byte ELSE 254

\* the bytes written ('A', newline, a byte that is not printable) and the
\* strings made of them
TestBytes == {65, 10, 1}
TestStrings == {<<b>> : b \in TestBytes} \cup {<<b, c>> : b \in TestBytes, c \in TestBytes}

\* the writer where earlier output left it: on the first or one of the last
\* two rows, at the start or the end of the line; row x holds the letter
\* 'A' + x in every cell
TestRows == {0, VGA_BUFFER_HEIGHT - 2, VGA_BUFFER_HEIGHT - 1}
TestColumns == {0, VGA_BUFFER_WIDTH - 2, VGA_BUFFER_WIDTH - 1}
TestBuffer == [x \in 0..(VGA_BUFFER_HEIGHT - 1) |-> [y \in 0..(VGA_BUFFER_WIDTH - 1) |-> 65 + x]]

cvars == <<cr3, phys_mem_offset, phys_mem, va, xlate, xlate_first, bvars,
           iter, yielded, page_table>>

ConsoleInit ==
    /\ writer \in {<<[column_pos |-> c, row_pos |-> r, buffer |-> TestBuffer]>> :
                        r \in TestRows, c \in TestColumns}
    /\ arg = [bytes |-> <<>>]
    /\ ret = [op |-> "none", byte |-> 0, access |-> <<>>, kind |-> "Ok", n |-> 0]
    /\ iter = <<>> /\ yielded = <<>> /\ page_table = <<>>
    /\ cr3 = {} /\ phys_mem_offset = {} /\ phys_mem = <<>> /\ va = {}
    /\ xlate = [kind |-> "idle"] /\ xlate_first = <<>>
    /\ MachineOff

\* VGA_WRITER.lock().write_string(bytes): the call, with the string to write
WriteStringCall ==
    /\ arg.bytes = <<>> /\ ret.kind # "panic"
    /\ \E str \in TestStrings :
        /\ ret.n + Len(str) <= MaxWrites
        /\ arg' = [bytes |-> str]
    /\ UNCHANGED <<ret, writer, cvars>>

\* one iteration of write_string's loop: write_byte for the next byte
WriteByte ==
    /\ arg.bytes # <<>> /\ ret.kind # "panic"
    /\ LET byte == write_string_byte(Head(arg.bytes))
           r == write_byte(writer[1], byte)
       IN  /\ writer' = <<r.w>>
           /\ ret' = [op |-> "write_byte", byte |-> byte, access |-> r.access,
                      kind |-> r.kind, n |-> ret.n + 1]
    /\ arg' = [bytes |-> Tail(arg.bytes)]
    /\ UNCHANGED cvars

ConsoleNext == WriteStringCall \/ WriteByte

SpecConsole == ConsoleInit /\ [][ConsoleNext]_vars

(***************************************************************************)
(* The translator's claims                                                 *)
(***************************************************************************)
\* the entry a walk from level 4 down to level 1 selects at each level:
\* root by p4, then p3, p2, p1 (<<e4, e3, e2, e1>>, cut at the first entry
\* that is no plain mapping)
TableAtPhys(mem, frame) ==
    IF \E g \in DOMAIN mem : Bits(g) = frame
    THEN mem[CHOOSE g \in DOMAIN mem : Bits(g) = frame] ELSE <<>>

LevelOrderEntries(mem, reg, addr) ==
    LET e4 == PageTable_index(TableAtPhys(mem, reg \cap BitRange(12, 51)), p4_index(addr))
        e3 == PageTable_index(TableAtPhys(mem, e4 \cap BitRange(12, 51)), p3_index(addr))
        e2 == PageTable_index(TableAtPhys(mem, e3 \cap BitRange(12, 51)), p2_index(addr))
        e1 == PageTable_index(TableAtPhys(mem, e2 \cap BitRange(12, 51)), p1_index(addr))
    IN  IF ~IsMapping(e4) THEN <<e4>>
        ELSE IF ~IsMapping(e3) THEN <<e4, e3>>
        ELSE IF ~IsMapping(e2) THEN <<e4, e3, e2>>
        ELSE <<e4, e3, e2, e1>>

Translated == xlate.kind # "idle"

\* C1: when every entry selected from level 4 down to level 1 (root by p4, then
\* p3, p2, p1) is present and not huge and the level-1 entry maps frame F,
\* translate_addr(v) returns F + (v & 0xFFF).
C1_WalkLevel4To1 ==
    Translated =>
        LET es == LevelOrderEntries(phys_mem, cr3, va) IN
        (Len(es) = 4 /\ IsMapping(es[4])) =>
            /\ xlate.kind = "Some"
            /\ xlate.value = Add64(es[4] \cap BitRange(12, 51), va \cap BitRange(0, 11))

\* C2: when the entry selected at some level of the walk is present and huge,
\* translate_addr returns an explicit huge-frame-unsupported result to its
\* caller; it does not panic.
C2_HugeFrameIsAResult ==
    Translated =>
        \A k \in 1..Len(xlate.entries) :
            (PRESENT \cup HUGE_PAGE) \subseteq xlate.entries[k] => xlate.kind # "panic"

\* C3: when the entry selected at a step of the walk has the present flag
\* clear, translate_addr returns None, without a panic, and that entry's table
\* is the last one it dereferenced.
C3_NotPresentIsNone ==
    Translated =>
        \A k \in 1..Len(xlate.entries) :
            ~(PRESENT \subseteq xlate.entries[k]) =>
                /\ xlate.kind = "None"
                /\ k = Len(xlate.entries)
                /\ Len(xlate.tables) = k

\* the walk stopped at a not-present entry of the second table (level 3)
C3_Witness ==
    /\ xlate.kind = "None"
    /\ Len(xlate.entries) = 2
    /\ ~(PRESENT \subseteq xlate.entries[2])
    /\ Len(xlate.tables) = 2

(***************************************************************************)
(* The claims about the tables, the boot order and the handlers            *)
(***************************************************************************)
IdtBuilt == IDT # <<>>
Gate(v) == ArrayGet(IDT[1], v)
BootEvents == {boot_log[i] : i \in DOMAIN boot_log}
FrameLabel(f) == Program(f.fn)[f.pc]

\* C4: after the IDT is built, the double-fault gate (slot 8) has its present
\* bit (bit 15 of options) set and its IST-index field (bits 0-2) equal to 1,
\* the hardware index of interrupt_stack_table[0], which the TSS binds.
C4_DoubleFaultGate ==
    IdtBuilt =>
        /\ 15 \in Gate(8).options
        /\ Val(Gate(8).options \cap BitRange(0, 2)) = 1
        /\ TSS # <<>> /\ TSS[1].interrupt_stack_table[0] # {}

\* C5: after the IDT is built, each of the vectors 0..31 and the timer (32) and
\* keyboard (33) vectors holds a registered handler: a non-zero handler address
\* and the present bit.
C5_EveryVectorRegistered ==
    IdtBuilt =>
        \A v \in 0..33 :
            /\ IDTEntry_pointer(Gate(v)) # {}
            /\ IDTEntry_present(Gate(v))

\* the boot events the ordering is about, in the order required
BootOrder == <<"lgdt", "cs_reload", "ds_reload", "ltr", "idt_build", "lidt", "sti">>
IsBootEvent(e) == e \in {BootOrder[i] : i \in DOMAIN BootOrder}
IsPrefix(a, b) == Len(a) <= Len(b) /\ a = SubSeq(b, 1, Len(a))

\* C6: in every run of kernel_main the boot events happen in the order lgdt,
\* CS/DS reload, ltr, IDT build, lidt, sti, and once sti has run no step
\* writes the GDT, the TSS or the IDT.
C6_BootOrder ==
    /\ [](IsPrefix(SelectSeq(boot_log, IsBootEvent), BootOrder))
    /\ [][("sti" \in BootEvents) => (GDT' = GDT /\ TSS' = TSS /\ IDT' = IDT)]_vars

\* interrupts are on and every boot event has happened
C6_Witness ==
    /\ SelectSeq(boot_log, IsBootEvent) = BootOrder
    /\ if_flag /\ GDT # <<>> /\ TSS # <<>> /\ IDT # <<>>

\* C7: in the loaded IDT every populated gate's CS is the value the CS register
\* held when set_entry ran, which is the kernel 64-bit code selector (GDT index
\* 2) that load_gdt put there, and not the selector the boot left in CS.
C7_GatesBindKernelCs ==
    idtr # <<>> =>
        \A v \in DOMAIN IDT[1].set :
            /\ Gate(v).cs = SegmentSelector_new(2, 0, 0)
            /\ Gate(v).cs = cs_reg
            /\ Gate(v).cs \notin BootSelectors

\* the IDT is loaded and its keyboard gate carries the kernel code selector
C7_Witness ==
    /\ idtr # <<>> /\ gdtr # <<>>
    /\ 33 \in DOMAIN IDT[1].set
    /\ Gate(33).cs = 16

\* frame j is a handler at its print, entered while a context it interrupted
\* holds the console lock
SpinsOnHeldLock(j) ==
    /\ j \in 2..depth
    /\ FrameLabel(stack[j]) \in PrintLabels /\ stack[j].pr = "none"
    /\ (FrameLabel(stack[j]) = "print" => stack[j].key)
    /\ lock # 0 /\ lock < j
Deadlocked == \E j \in 2..depth : SpinsOnHeldLock(j)

FatalHandlers == ExceptionHandlers \ {"breakpoint"}

\* the context has printed the trap frame: its report formats stack_frame,
\* and what it read there is the frame the CPU pushed
PrintedTrapFrame(f) == "stack_frame" \in f.out.args /\ f.sf = "trap_frame"

\* C9: breakpoint is the only exception handler that returns, and it returns
\* after printing the trap frame; every other registered exception handler is
\* never left, it prints the trap frame (its statement is not cut short by a
\* fault of its own) and when it reaches the endless loop it has printed the
\* trap frame.
C9_OnlyBreakpointReturns ==
    /\ [](\A i \in 1..depth :
            /\ (stack[i].fn \in FatalHandlers /\ FrameLabel(stack[i]) = "loop")
                    => PrintedTrapFrame(stack[i])
            /\ stack[i].fn \in ExceptionHandlers => stack[i].pr # "fault")
    /\ [][/\ \A i \in 1..depth : stack[i].fn \in FatalHandlers =>
                (Len(stack') >= i /\ stack'[i].fn = stack[i].fn)
          /\ (depth > 1 /\ Len(stack') < depth /\ top.fn \in ExceptionHandlers) =>
                (top.fn = "breakpoint" /\ PrintedTrapFrame(top))]_vars

\* C10: the page-fault handler's report holds, besides the trap frame, the
\* faulting address read from CR2 and the causes decoded from the error code,
\* and the handler then halts.
C10_PageFaultReport ==
    \A i \in 1..depth :
        (stack[i].fn = "page_fault" /\ FrameLabel(stack[i]) = "loop") =>
            {"stack_frame", "fault_address", "error_code"} \subseteq stack[i].out.args

\* the two device handlers
DeviceHandlers == {"pit_handler", "keyboard_handler"}

\* C11: a device handler that returns has issued exactly one end-of-interrupt,
\* for the vector it was entered through (32 for the timer handler, 33 for the
\* keyboard handler, the slots interrupts[0] and interrupts[1] that hold them),
\* and the end-of-interrupt is the last thing it does before it returns.
C11_OneEoiAtTheEnd ==
    /\ [](IdtBuilt =>
            /\ IDTEntry_pointer(Gate(32)) = as_fn_ptr("pit_handler")
            /\ IDTEntry_pointer(Gate(33)) = as_fn_ptr("keyboard_handler"))
    /\ [](\A i \in 1..depth :
            /\ stack[i].fn \in DeviceHandlers =>
                  stack[i].vec = (IF stack[i].fn = "pit_handler" THEN 32 ELSE 33)
            /\ stack[i].eoi # <<>> => FrameLabel(stack[i]) = "iretq")
    /\ [][(depth > 1 /\ Len(stack') < depth /\ top.fn \in DeviceHandlers) =>
                top.eoi = <<top.vec>>]_vars

\* the keyboard handler is at its return, after a print, with its one
\* end-of-interrupt issued
C11_Witness ==
    /\ depth = 2 /\ top.fn = "keyboard_handler" /\ label = "iretq"
    /\ top.eoi = <<33>> /\ top.out # NoReport

\* C12: translate_addr only reads. No step of a call, and no step of a handler
\* that runs between or during the calls, changes a page-table entry, CR3 or
\* the offset; a step of a call changes nothing but the call's own progress
\* (no other state: not the console, not the lock, not the kernel context);
\* and a second call on the same address returns what the first call returned.
C12_TranslatorOnlyReads ==
    /\ [][phys_mem' = phys_mem /\ cr3' = cr3 /\ phys_mem_offset' = phys_mem_offset]_vars
    /\ [][xlate' # xlate => UNCHANGED bvars]_vars
    /\ []((xlate_first # <<>> /\ xlate.kind \in {"Some", "None"}) =>
            /\ xlate.kind = xlate_first[1].kind
            /\ xlate.value = xlate_first[1].value)

(***************************************************************************)
(* The claims about addresses                                              *)
(***************************************************************************)
\* C13: for every address a, new_virt_truncate(new_virt_truncate(a)) =
\* new_virt_truncate(a), and in new_virt_truncate(a) each of the bits 48-63
\* equals bit 47 while the bits 0-47 are those of a.
C13_CanonicalizeIdempotent ==
    ret.op = "new_virt_truncate" =>
        /\ ret.again = ret.canon
        /\ \A i \in 48..63 : (i \in ret.canon) <=> (47 \in ret.canon)
        /\ \A i \in 0..47 : (i \in ret.canon) <=> (i \in arg.addr)

\* an address with bit 47 set and bit 63 clear has been canonicalized
C13_Witness ==
    /\ ret.op = "new_virt_truncate"
    /\ 47 \in arg.addr /\ 63 \notin arg.addr /\ 63 \in ret.canon

\* bits 48-63 repeat bit 47
IsCanonical(a) == \A i \in 48..63 : (i \in a) <=> (47 \in a)

\* p4<<39 | p3<<30 | p2<<21 | p1<<12 | offset, canonicalized
Reassembled == new_virt_truncate(VirtOf(ret.p4, ret.p3, ret.p2, ret.p1, ret.offset))

\* C14 as stated: for all addresses a the four indexes are in [0,512), the
\* offset in [0,4096), and the canonicalized reassembly is a.
C14_ReassembleReproduces ==
    ret.op = "decompose" =>
        /\ \A x \in {ret.p4, ret.p3, ret.p2, ret.p1} : x \in 0..511
        /\ ret.offset \in 0..4095
        /\ Reassembled = arg.addr

\* C14 amended: for all addresses a the four indexes are in [0,512), the
\* offset in [0,4096), and the canonicalized reassembly is the canonical form
\* of a: it is a itself exactly when a is canonical.
C14_ReassembleCanonical ==
    ret.op = "decompose" =>
        /\ \A x \in {ret.p4, ret.p3, ret.p2, ret.p1} : x \in 0..511
        /\ ret.offset \in 0..4095
        /\ \A i \in 0..47 : (i \in Reassembled) <=> (i \in arg.addr)
        /\ IsCanonical(Reassembled)
        /\ (Reassembled = arg.addr) <=> IsCanonical(arg.addr)

\* a canonical upper-half address with every index and the offset non-zero
\* has been taken apart
C14_Witness ==
    /\ ret.op = "decompose"
    /\ IsCanonical(arg.addr) /\ 63 \in arg.addr
    /\ ret.p4 > 255 /\ ret.p3 > 0 /\ ret.p2 > 0 /\ ret.p1 > 0 /\ ret.offset > 0

(***************************************************************************)
(* The claims about pages and frames                                       *)
(***************************************************************************)
\* the size in bytes as a power of two: 4 KiB = 2^12, 2 MiB = 2^21, 1 GiB = 2^30
SizeShift(S) == CASE S = "Size4KiB" -> 12 [] S = "Size2MiB" -> 21 [] S = "Size1GiB" -> 30
IsMultipleOf(a, S) == a \cap BitRange(0, SizeShift(S) - 1) = {}

\* C15: for each page size S and every address, from_start_address of Page and
\* of PhysFrame succeeds iff the address is a multiple of S, then with that
\* address as start, and otherwise returns AddressNotAligned;
\* containing_address returns a page/frame whose start is a multiple of S
\* with start <= addr < start + S.
C15_PageConstruction ==
    /\ ret.op = "from_start_address" =>
          IF IsMultipleOf(arg.addr, arg.size)
          THEN ret.r = [kind |-> "Ok",
                        page |-> [start_address |-> arg.addr, size |-> arg.size]]
          ELSE ret.r = [kind |-> "Err", err |-> "AddressNotAligned"]
    /\ ret.op = "containing_address" =>
          /\ ret.r.size = arg.size
          /\ IsMultipleOf(ret.r.start_address, arg.size)
          /\ ~Lt64(arg.addr, ret.r.start_address)
          /\ Sub64(arg.addr, ret.r.start_address) \subseteq BitRange(0, SizeShift(arg.size) - 1)

\* a 4 KiB-aligned address that is no multiple of 2 MiB was refused as the
\* start of a 2 MiB frame
C15_Witness ==
    /\ ret.op = "from_start_address" /\ ret.of = "PhysFrame"
    /\ arg.size = "Size2MiB" /\ arg.addr = {12, 21, 47}
    /\ ret.r.kind = "Err"

\* p.start + n * S fits 64 bits
SumFits(q, n) ==
    /\ \A i \in n : i + SizeShift(q.size) <= 63
    /\ ~Lt64(Add64(q.start_address, Shl(n, SizeShift(q.size))), q.start_address)

\* C16 as stated: for any page or frame p and any count n, (p + n) - p = n
\* and (p + n) - n = p.
C16_AddSubInverse ==
    ret.op = "add_then_sub" =>
        /\ ret.diff = [kind |-> "Ok", value |-> arg.count]
        /\ ret.back = [kind |-> "Ok", page |-> ret.p]

\* C16 amended: for any page or frame p of size S and any count n for which
\* p.start + n*S fits 64 bits, p + n is the page starting at p.start + n*S,
\* (p + n) - p = n and (p + n) - n = p.
C16_AddSubInverseInRange ==
    (ret.op = "add_then_sub" /\ SumFits(ret.p, arg.count)) =>
        /\ ret.sum = [kind |-> "Ok",
                      page |-> [start_address |->
                                    Add64(ret.p.start_address,
                                          Shl(arg.count, SizeShift(arg.size))),
                                size |-> arg.size]]
        /\ ret.diff = [kind |-> "Ok", value |-> arg.count]
        /\ ret.back = [kind |-> "Ok", page |-> ret.p]

\* three pages were added to a non-zero 2 MiB page and taken off again
C16_Witness ==
    /\ ret.op = "add_then_sub" /\ ret.of = "Page" /\ arg.size = "Size2MiB"
    /\ arg.count = {0, 1} /\ ret.p.start_address = {21, 30, 47}
    /\ ret.sum.kind = "Ok" /\ ret.sum.page.start_address = {23, 30, 47}
    /\ ret.back.kind = "Ok"

(***************************************************************************)
(* The claims about ranges                                                 *)
(***************************************************************************)
\* the start of the page i pages after `start`, and whether it exists
NthStart(start, i) == Add64(start.start_address, Shl(Bits(i), SizeShift(start.size)))
NthFits(start, i) == ~Lt64(NthStart(start, i), start.start_address)
NthPage(start, i) == [kind |-> "Some",
                      page |-> [start_address |-> NthStart(start, i), size |-> start.size]]
Nothing == [kind |-> "None"]

\* the i-th item (from 0) of start, start+1, ... up to but excluding / including end
ItemExclusive(i) ==
    IF NthFits(arg.start, i) /\ Lt64(NthStart(arg.start, i), arg.end.start_address)
    THEN NthPage(arg.start, i) ELSE Nothing
ItemInclusive(i) ==
    IF NthFits(arg.start, i) /\ ~Lt64(arg.end.start_address, NthStart(arg.start, i))
    THEN NthPage(arg.start, i) ELSE Nothing
IsMaxPage(q) == q.start_address = BitRange(SizeShift(q.size), 63)

\* C17: the calls of next() on Page::range(start, end) return start, start+1,
\* ..., end-1 in this order (max(0, end - start) pages) and None ever after,
\* none at all for range(x, x); those on Page::range_inclusive(x, x) return
\* x once and None ever after.
C17_RangeYields ==
    /\ (iter # <<>> /\ iter[1].kind = "PageRange") =>
          \A i \in 1..Len(yielded) : yielded[i] = ItemExclusive(i - 1)
    /\ (iter # <<>> /\ iter[1].kind = "PageRangeInclusive" /\ arg.start = arg.end) =>
          \A i \in 1..Len(yielded) :
              yielded[i] = IF i = 1 THEN [kind |-> "Some", page |-> arg.start] ELSE Nothing

\* range(page 0, page 2) of 2 MiB pages returned page 0, page 1, None, None
C17_Witness ==
    /\ iter # <<>> /\ iter[1].kind = "PageRange"
    /\ arg.start = [start_address |-> {}, size |-> "Size2MiB"]
    /\ arg.end.start_address = {22}
    /\ Len(yielded) = 4
    /\ yielded[1] = [kind |-> "Some", page |-> arg.start]
    /\ yielded[2] = [kind |-> "Some", page |-> [start_address |-> {21}, size |-> "Size2MiB"]]
    /\ yielded[3] = Nothing /\ yielded[4] = Nothing

\* C18: when the end of a PageRangeInclusive is the maximum page of its size,
\* the calls of next() return every page from start to the maximum page, once
\* each and increasing, then None; no call panics on an overflow and no
\* address wraps.
C18_InclusiveToMaxPage ==
    (iter # <<>> /\ iter[1].kind = "PageRangeInclusive" /\ IsMaxPage(arg.end)) =>
        \A i \in 1..Len(yielded) : yielded[i] = ItemInclusive(i - 1)

\* with overflow checks on, the range from two pages below the maximum 4 KiB
\* page to that page returned three pages, the last the maximum page, then None
C18_Witness ==
    /\ iter # <<>> /\ iter[1].kind = "PageRangeInclusive" /\ arg.checks
    /\ arg.end = [start_address |-> BitRange(12, 63), size |-> "Size4KiB"]
    /\ arg.start.start_address = {12} \cup BitRange(14, 63)
    /\ Len(yielded) >= 4
    /\ yielded[3] = [kind |-> "Some", page |-> arg.end]
    /\ yielded[4] = Nothing

\* C19: when the end of a PhysFrameRangeInclusive is the maximum frame of its
\* size, the calls of next() return every frame from start to the maximum
\* frame and then None; no call overflows the address.
C19_FrameInclusiveToMaxFrame ==
    (iter # <<>> /\ iter[1].kind = "PhysFrameRangeInclusive" /\ IsMaxPage(arg.end)) =>
        \A i \in 1..Len(yielded) : yielded[i] = ItemInclusive(i - 1)

(***************************************************************************)
(* The claims about page tables                                            *)
(***************************************************************************)
\* C20: a new or freshly zeroed PageTable has all 512 entries zero and
\* is_empty() is true; after set_addr or set_flags left a non-zero entry
\* is_empty() is false; after set_unused on an entry, that entry is zero and
\* is_empty() is true again when no other entry is set.
C20_IsEmpty ==
    /\ ret.op \in {"new", "zero"} =>
          /\ DOMAIN page_table[1] = 0..511
          /\ \A i \in 0..511 : page_table[1][i] = {}
          /\ ret.is_empty
    /\ (ret.op \in {"set_addr", "set_flags"} /\ page_table[1][ret.index] # {}) =>
          ~ret.is_empty
    /\ ret.op = "set_unused" =>
          /\ page_table[1][ret.index] = {}
          /\ (\A j \in 0..511 : j # ret.index => page_table[1][j] = {}) => ret.is_empty

\* the last entry alone was set, then cleared, and the table is empty again
C20_Witness ==
    /\ ret.op = "set_unused" /\ ret.index = 511 /\ ret.prev = {0, 12} /\ ret.is_empty
    /\ page_table # <<>>

(***************************************************************************)
(* The claims about one page-table entry                                   *)
(***************************************************************************)
\* C21: for every entry value, frame() returns FrameNotPresent when bit 0
\* (PRESENT) is clear, whatever bit 7 is; HugeFrame when bits 0 and 7 are both
\* set; and otherwise Ok of the entry's bits 12-51, a 4 KiB-aligned address.
C21_FrameResult ==
    ret.op = "frame" =>
        /\ 0 \notin arg.entry => ret.r.kind = "FrameNotPresent"
        /\ (0 \in arg.entry /\ 7 \in arg.entry) => ret.r.kind = "HugeFrame"
        /\ (0 \in arg.entry /\ 7 \notin arg.entry) =>
              /\ ret.r.kind = "Ok"
              /\ ret.r.frame = {b \in arg.entry : b >= 12 /\ b <= 51}
              /\ \A b \in ret.r.frame : b >= 12

\* a present, non-huge entry with bits 12 and 51 and with flag bits above 51
\* gave Ok(0x8_0000_0000_1000)
C21_Witness ==
    /\ ret.op = "frame" /\ arg.entry = {0, 12, 51, 52, 63}
    /\ ret.r = [kind |-> "Ok", frame |-> {12, 51}]

\* C29: the address field and the flag field of an entry never overlap: every
\* entry value is addr() | flags().bits(); after set_addr(a, f) with a 4 KiB-
\* aligned a below 2^52, addr() is a and flags() is f; a following
\* set_flags(g) leaves addr() unchanged and makes flags() g; set_addr panics
\* on an unaligned address and set_frame panics when f contains HUGE_PAGE.
C29_AddrAndFlagsDisjoint ==
    /\ arg.entry = PageTableEntry_addr(arg.entry) \cup PageTableEntry_flags(arg.entry)
    /\ PageTableEntry_addr(arg.entry) \cap PageTableEntry_flags(arg.entry) = {}
    /\ (ret.op = "set_addr" /\ arg.addr \subseteq BitRange(12, 51)) =>
          /\ ret.r.kind = "Ok"
          /\ PageTableEntry_addr(ret.entry) = arg.addr
          /\ PageTableEntry_flags(ret.entry) = arg.flags
    /\ ret.op = "set_flags" =>
          /\ PageTableEntry_addr(ret.entry) = PageTableEntry_addr(ret.prev)
          /\ PageTableEntry_flags(ret.entry) = arg.g
    /\ (ret.op = "set_addr" /\ arg.addr \cap BitRange(0, 11) # {}) =>
          ret.r.kind = "panic" /\ ret.entry = ret.prev
    /\ (ret.op = "set_frame" /\ 7 \in arg.flags) =>
          ret.r.kind = "panic" /\ ret.entry = ret.prev

\* set_addr(0x8_0000_0000_1000, PRESENT | BIT_52) was followed by
\* set_flags(NO_EXECUTE): the address stayed and the flags are NO_EXECUTE alone
C29_Witness ==
    /\ ret.op = "set_flags" /\ arg.addr = {12, 51} /\ arg.flags = {0, 52}
    /\ ret.prev = {0, 12, 51, 52} /\ arg.g = {63}
    /\ ret.entry = {12, 51, 63}

(***************************************************************************)
(* The claims about the descriptor tables as built and loaded              *)
(***************************************************************************)
Slot(i) == ArrayGet(GDT[1], i)
AllZero(e) ==
    /\ e.limit_low = {} /\ e.base_low = {} /\ e.base_mid = {}
    /\ e.access_byte = {} /\ e.granularity = {} /\ e.base_high = {}

\* every slot lo..len-1 of the array is all zero: the slots that were written
\* are looked at one by one, the others all hold the value the array was
\* filled with
AllZeroFrom(a, lo) ==
    /\ \A i \in DOMAIN a.set : i >= lo => AllZero(a.set[i])
    /\ AllZero(a.default) \/ (lo..(a.len - 1)) \subseteq DOMAIN a.set

\* C22: in the built GDT slot 0 is all zero, the slots 1-6 are the code and
\* data descriptors (non-null: kernel code 32/64-bit, kernel data, user code
\* 32/64-bit, user data), the slots 7 and 8 hold the TSS descriptor, and every
\* slot from 9 on is all zero; once the table is loaded no step changes it.
C22_GdtSlots ==
    /\ [](GDT # <<>> =>
            /\ GDT[1].len = 8192
            /\ AllZero(Slot(0))
            /\ AllZeroFrom(GDT[1], 9)
            /\ \A i \in 1..6 : ~AllZero(Slot(i)) /\ 4 \in Slot(i).access_byte
            /\ \A i \in {1, 2, 4, 5} : 3 \in Slot(i).access_byte
            /\ \A i \in {3, 6} : 3 \notin Slot(i).access_byte
            /\ \A i \in {1, 2, 3} : Slot(i).access_byte \cap {5, 6} = {}
            /\ \A i \in {4, 5, 6} : {5, 6} \subseteq Slot(i).access_byte
            /\ \A i \in {1, 4} : 6 \in Slot(i).granularity /\ 5 \notin Slot(i).granularity
            /\ \A i \in {2, 5} : 5 \in Slot(i).granularity /\ 6 \notin Slot(i).granularity
            /\ ~AllZero(Slot(7)) /\ 4 \notin Slot(7).access_byte)
    /\ [][gdtr # <<>> => GDT' = GDT]_vars

\* the GDT is loaded and, after sti, a handler runs above kernel_main
C22_Witness ==
    /\ gdtr # <<>> /\ GDT # <<>> /\ if_flag = FALSE /\ depth = 2
    /\ "sti" \in BootEvents
    /\ ~AllZero(Slot(8))

\* C23: the limit of each loaded descriptor-table pointer is the table's byte
\* size minus one, untruncated: 8192*8 - 1 = 65535 for the GDT and
\* 256*16 - 1 = 4095 for the IDT; the base is the address of the table.
C23_PointerLimits ==
    /\ gdtr # <<>> => gdtr[1] = [limit |-> BitRange(0, 15), base |-> TestGdtAddr]
    /\ idtr # <<>> => idtr[1] = [limit |-> BitRange(0, 11), base |-> TestIdtAddr]

\* both tables are loaded
C23_Witness == gdtr # <<>> /\ idtr # <<>> /\ idtr[1].limit = Bits(4095)

\* C24: the initialized TSS binds exactly one IST slot:
\* interrupt_stack_table[0] is the end (start + 5 * 0x1000) of the
\* double-fault stack, the other six IST pointers and the three privilege
\* stack pointers are zero, and iomap_base is the size of the TSS (104).
C24_TssOneIstSlot ==
    TSS # <<>> =>
        /\ TSS[1].interrupt_stack_table[0] = Add64(TestStackAddr, Bits(20480))
        /\ DOMAIN TSS[1].interrupt_stack_table = 0..6
        /\ \A i \in 1..6 : TSS[1].interrupt_stack_table[i] = {}
        /\ DOMAIN TSS[1].privilege_stack_table = 0..2
        /\ \A i \in 0..2 : TSS[1].privilege_stack_table[i] = {}
        /\ TSS[1].iomap_base = Bits(104)

\* the TSS is built and the task register loaded with its selector
C24_Witness ==
    /\ TSS # <<>> /\ tr_reg = 56
    /\ TSS[1].interrupt_stack_table[0] = {12, 14, 22}

\* the vectors the IDT's initializer registers a handler for
PopulatedVectors == (0..8) \cup (10..14) \cup (16..21) \cup (28..30) \cup {32, 33}

\* C25: every IDT slot the build does not populate has its present bit (bit 15
\* of the options) clear, in the freshly constructed table and in every later
\* state; once built, the IDT is never changed.
C25_UnpopulatedNotPresent ==
    /\ [](/\ \A v \in 0..255 : 15 \notin ArrayGet(InterruptDescriptorTable_new, v).options
          /\ IDT # <<>> =>
                /\ IDT[1].len = 256
                /\ \A v \in (0..255) \ PopulatedVectors : 15 \notin Gate(v).options)
    /\ [][IDT # <<>> => IDT' = IDT]_vars

\* the IDT is loaded and the keyboard handler runs above kernel_main
C25_Witness ==
    /\ IDT # <<>> /\ idtr # <<>> /\ 15 \notin Gate(9).options /\ 15 \in Gate(33).options
    /\ depth = 2 /\ top.fn = "keyboard_handler"

(***************************************************************************)
(* The claims about indexes and offsets                                    *)
(***************************************************************************)
\* C26: for every 16-bit input, PageTableIndex::new returns the input when it
\* is below 512 and panics otherwise, PageOffset::new the input when it is
\* below 4096 and panics otherwise, and new_truncate returns the input mod 512
\* / mod 4096; so no index holds a value >= 512 and no offset one >= 4096.
C26_IndexAndOffsetInRange ==
    /\ ret.op = "PageTableIndex::new" =>
          IF arg.input <= 511 THEN ret.r.kind = "Ok" /\ ret.r.value = arg.input
          ELSE ret.r.kind = "panic"
    /\ ret.op = "PageOffset::new" =>
          IF arg.input <= 4095 THEN ret.r.kind = "Ok" /\ ret.r.value = arg.input
          ELSE ret.r.kind = "panic"
    /\ ret.op = "PageTableIndex::new_truncate" =>
          ret.r.value = arg.input - 512 * (arg.input \div 512)
    /\ ret.op = "PageOffset::new_truncate" =>
          ret.r.value = arg.input - 4096 * (arg.input \div 4096)
    /\ (ret.op \in {"PageTableIndex::new", "PageTableIndex::new_truncate"}
            /\ ret.r.kind = "Ok") => ret.r.value \in 0..511
    /\ (ret.op \in {"PageOffset::new", "PageOffset::new_truncate"}
            /\ ret.r.kind = "Ok") => ret.r.value \in 0..4095

\* PageTableIndex::new(512) panicked
C26_Witness ==
    /\ ret.op = "PageTableIndex::new" /\ arg.input = 512 /\ ret.r.kind = "panic"

(***************************************************************************)
(* The claim about the TSS descriptor                                      *)
(***************************************************************************)
\* C27: for every TSS address A, after set_tss(tss, 7) the base reassembled
\* from slot 7 (base_low | base_mid << 16 | base_high << 24) is A's low 32 bits,
\* the first four bytes of slot 8 are A's high 32 bits and the rest of slot 8
\* is zero, slot 7's limit is size_of(TSS) - 1 = 103 and its access byte is
\* 0x89.
C27_TssDescriptorBase ==
    ret.op \in {"set_tss", "GDT"} =>
        LET s7 == ArrayGet(ret.gdt, 7)
            s8 == ArrayGet(ret.gdt, 8)
        IN  /\ s7.base_low \cup Shl(s7.base_mid, 16) \cup Shl(s7.base_high, 24)
                  = {b \in arg.tss : b <= 31}
            /\ s8.limit_low \cup Shl(s8.base_low, 16) = {b - 32 : b \in {c \in arg.tss : c >= 32}}
            /\ s8.base_mid = {} /\ s8.access_byte = {}
            /\ s8.granularity = {} /\ s8.base_high = {}
            /\ s7.limit_low \cup Shl(s7.granularity \cap BitRange(0, 3), 16) = Bits(103)
            /\ s7.access_byte = {0, 3, 7}
            /\ s7.limit_low \subseteq BitRange(0, 15) /\ s7.base_low \subseteq BitRange(0, 15)
            /\ s7.base_mid \subseteq BitRange(0, 7) /\ s7.base_high \subseteq BitRange(0, 7)
            /\ s8.limit_low \subseteq BitRange(0, 15) /\ s8.base_low \subseteq BitRange(0, 15)

\* a TSS above 4 GiB: both halves of slot 8's first four bytes are used
C27_Witness ==
    /\ ret.op = "set_tss" /\ arg.tss = {2, 16, 24, 32, 63}
    /\ ArrayGet(ret.gdt, 8).limit_low = {0} /\ ArrayGet(ret.gdt, 8).base_low = {15}
    /\ ArrayGet(ret.gdt, 7).base_mid = {0} /\ ArrayGet(ret.gdt, 7).base_high = {0}

(***************************************************************************)
(* The claim about stepping an address forward                             *)
(***************************************************************************)
\* start + count, when it fits 64 bits
ForwardSum == Add64(arg.start, arg.count)
ForwardSumFits == ~Lt64(ForwardSum, arg.start)
CountTooLarge == \E b \in arg.count : b > 48 \/ (b = 48 /\ arg.count # {48})

\* C28: for every canonical start and every count, forward_checked_u64 returns
\* None or a canonical address; when start + count leaves the lower half (bit
\* 47 set, bits 48-63 clear) the result is the sum sign-extended into the
\* upper half; when the sum runs past the end of the address space or
\* count > 2^48 the result is None.
C28_ForwardStaysCanonical ==
    ret.op = "forward_checked_u64" =>
        /\ ret.r.kind = "None" \/ IsCanonical(ret.r.addr)
        /\ (~CountTooLarge /\ ForwardSumFits /\ ForwardSum \cap BitRange(47, 63) = {47}) =>
              ret.r = [kind |-> "Some", addr |-> ForwardSum \cup BitRange(48, 63)]
        /\ (CountTooLarge \/ ~ForwardSumFits) => ret.r.kind = "None"

(***************************************************************************)
(* The claim about the console writer                                      *)
(***************************************************************************)
\* the last row after a scroll: blanks, with the wrapped byte in its first cell
LastRowAfter(byte) ==
    [y \in 0..79 |-> IF y = 0 /\ byte # 10 THEN byte ELSE 32]

\* C30: after any sequence of write_string calls the cursor is inside the
\* 80x25 buffer (row_pos < 25, column_pos < 80) and every cell written is
\* inside it; a newline, or a byte that wraps the line, written on the last
\* row moves every row up by one, leaves the last row blank (but for the
\* wrapped byte in its first cell) and leaves row_pos at 24.
C30_CursorStaysInside ==
    /\ [](writer # <<>> =>
            /\ writer[1].row_pos \in 0..24 /\ writer[1].column_pos \in 0..79
            /\ ret.kind # "panic"
            /\ (ret.access # <<>> => (ret.access[1] \in 0..24 /\ ret.access[2] \in 0..79))
            /\ DOMAIN writer[1].buffer = 0..24
            /\ \A x \in 0..24 : DOMAIN writer[1].buffer[x] = 0..79)
    /\ [][(/\ writer # <<>> /\ ret'.n # ret.n
            /\ writer[1].row_pos = 24
            /\ (ret'.byte = 10 \/ writer[1].column_pos = 79)) =>
              /\ writer'[1].row_pos = 24
              /\ \A x \in 0..23 : writer'[1].buffer[x] = writer[1].buffer[x + 1]
              /\ writer'[1].buffer[24] = LastRowAfter(ret'.byte)
              /\ writer'[1].column_pos = IF ret'.byte = 10 THEN 0 ELSE 1]_vars

\* a byte that is not printable wrapped the line on the last row: the rows
\* moved up and the last row holds 0xfe and blanks
C30_Witness ==
    /\ writer # <<>> /\ ret.op = "write_byte" /\ ret.byte = 254
    /\ ret.access = <<24, 0>>
    /\ writer[1].row_pos = 24 /\ writer[1].column_pos = 1
    /\ writer[1].buffer[0][5] = 66
    /\ writer[1].buffer[24] = [y \in 0..79 |-> IF y = 0 THEN 254 ELSE 32]

====
